---- MODULE Spec2Model ----
\* A model of the text-rpg engine: the player's progression (XP, levels, the
\* one-time class choice, skills, stat recalculation), item use and the game
\* loop of main.py, with the older single-file prototype rpg.py where the two
\* differ.
EXTENDS Integers, Sequences, FiniteSets, TLC

VARIABLES
    player,             \* the Player object (models.py Player.__init__)
    locations,          \* all_locations: each Location's monsters, items and npcs
    game_mode,          \* main(): game_mode
    previous_game_mode, \* main(): previous_game_mode
    available_skills,   \* the skills get_available_skills returned when last queried
    running,            \* main(): the loop has not been left through `quit`
    save_data,          \* the contents of save_data.json, NoSave if the file is absent
    message,            \* the message a call returned / main(): message
    call                \* the operation that produced this state, with its inputs

vars == <<player, locations, game_mode, previous_game_mode, available_skills,
          running, save_data, message, call>>

\* The world and the locals of main(), which a call made outside the game loop
\* leaves alone.
loop_vars == <<locations, game_mode, previous_game_mode, available_skills,
               running, save_data>>

\* ---------------------------------------------------------------- helpers

None == "None"

Min(a, b) == IF a <= b THEN a ELSE b

Range(s) == {s[i] : i \in DOMAIN s}

Msg(kind, id, value) == [kind |-> kind, id |-> id, value |-> value]

NoCall == [op |-> "none", id |-> None, value |-> 0, free |-> FALSE]

Call(op, id, value, free) == [op |-> op, id |-> id, value |-> value, free |-> free]

\* ---------------------------------------------------------------- catalog
\* The skills and classes come from game_data.json; this catalog is one such
\* data set. Stat deltas are records over the three live stats; critical
\* chance is counted in percent (0.05 is 5).

NoMod == [max_hp |-> 0, attack_power |-> 0, critical_chance |-> 0]

LevelReq(v) == [type |-> "level", value |-> v, id |-> None]

SkillReq(s) == [type |-> "skill", value |-> 0, id |-> s]

Skill(skill_type, cost, requirements, stat_mod, damage_bonus, cooldown) ==
    [skill_type |-> skill_type, cost |-> cost, requirements |-> requirements,
     stat_mod |-> stat_mod, damage_bonus |-> damage_bonus, cooldown |-> cooldown]

skills ==
    ("toughness_1" :> Skill("passive", 1, <<>>,
                            [NoMod EXCEPT !.max_hp = 10], 0, 1))
 @@ ("power_strike" :> Skill("active", 1, <<LevelReq(12)>>,
                             [NoMod EXCEPT !.attack_power = 1], 3, 2))
 @@ ("knights_valor" :> Skill("passive", 1, <<LevelReq(10), SkillReq("toughness_1")>>,
                              [NoMod EXCEPT !.attack_power = 2], 0, 1))
 @@ ("fireball" :> Skill("active", 1, <<LevelReq(10)>>, NoMod, 10, 3))
 @@ ("arcane_mastery" :> Skill("passive", 2, <<LevelReq(12), SkillReq("fireball")>>,
                               [NoMod EXCEPT !.attack_power = 3, !.critical_chance = 5],
                               0, 1))

SkillIds == DOMAIN skills

PlayerClass(base_mods, starting_skills, skill_pool) ==
    [base_mods |-> base_mods, starting_skills |-> starting_skills,
     skill_pool |-> skill_pool]

classes ==
    ("knight" :> PlayerClass([NoMod EXCEPT !.max_hp = 20, !.attack_power = 2],
                             <<"toughness_1">>, {"knights_valor"}))
 @@ ("mage" :> PlayerClass([NoMod EXCEPT !.max_hp = -5, !.attack_power = 5],
                           <<"fireball", "arcane_mastery">>,
                           {"fireball", "arcane_mastery"}))

ClassIds == DOMAIN classes

\* ---------------------------------------------------------------- world
\* The world of game_data.json as load_world_from_data builds it: one such
\* data set, with a city and a volcano.

Item(item_type, name, heal_amount, effect, duration, damage_amount, contained_item_ids) ==
    [item_type |-> item_type, name |-> name, heal_amount |-> heal_amount,
     effect |-> effect, duration |-> duration, damage_amount |-> damage_amount,
     contained_item_ids |-> contained_item_ids]

all_items ==
    ("healing_potion" :> Item("Potion", "Healing Potion", 9, None, 0, 0, <<>>))
 @@ ("fire_tonic" :> Item("EffectPotion", "Fire Tonic", 0, "fire_resistance", 2, 0, <<>>))
 @@ ("fire_bomb" :> Item("OffensiveItem", "Fire Bomb", 0, None, 0, 6, <<>>))
 @@ ("lantern_1" :> Item("Item", "Lantern", 0, None, 0, 0, <<>>))
 @@ ("fireproof_armor" :> Item("Item", "Fireproof Armor", 0, None, 0, 0, <<>>))
 @@ ("old_chest" :> Item("Container", "Old Chest", 0, None, 0, 0, <<"healing_potion">>))

ItemIds == DOMAIN all_items

\* An item object: its id and, for a Container, what it still holds.
ItemObject(item_id) ==
    [id |-> item_id, contained_items |-> all_items[item_id].contained_item_ids]

Monster(hp, attack_power, xp_reward, completes_quest_id, drop_ids) ==
    [hp |-> hp, attack_power |-> attack_power, xp_reward |-> xp_reward,
     completes_quest_id |-> completes_quest_id, drop_ids |-> drop_ids]

all_monsters ==
    ("goblin" :> Monster(10, 30, 50, "quest_cleared_swamp",
                          <<"fire_bomb", "lantern_1", "lantern_1">>))
 @@ ("fire_imp" :> Monster(5, 30, 8000, None, <<>>))
 @@ ("rat" :> Monster(8, 2, 50, "quest_cleared_swamp", <<"healing_potion">>))
 @@ ("bat" :> Monster(3, 1, 50, "quest_cleared_swamp", <<>>))

MonsterProtoIds == DOMAIN all_monsters

\* A monster at a location; its id is "{proto}:{n}".
MonsterObject(proto, n) ==
    [proto |-> proto, n |-> n, hp |-> all_monsters[proto].hp]

\* game_data["quests"]
QuestIds == {"quest_cleared_swamp"}

HasItem(item_id) == [type |-> "has_item", item_id |-> item_id, quest_id |-> None]

QuestCompleted(quest_id) ==
    [type |-> "quest_completed", item_id |-> None, quest_id |-> quest_id]

QuestActive(quest_id) ==
    [type |-> "quest_active", item_id |-> None, quest_id |-> quest_id]

DialogueEntry(conditions, gives_quest_id, gives_items) ==
    [conditions |-> conditions, gives_quest_id |-> gives_quest_id,
     gives_items |-> gives_items]

NPC(healing_dialogue, dialogue) ==
    [healing_dialogue |-> healing_dialogue, dialogue |-> dialogue]

all_npcs ==
    ("sister_elira" :> NPC(TRUE, <<>>))
 @@ ("old_man_willow" :>
        NPC(FALSE, << DialogueEntry(<<QuestCompleted("quest_cleared_swamp")>>, None, <<>>),
                      DialogueEntry(<<>>, "quest_cleared_swamp",
                                    <<"lantern_1", "healing_potion">>) >>))

NpcIds == DOMAIN all_npcs

Location(location_type, exits, conditional_exits, npc_ids, monster_ids, item_ids, spawns) ==
    [location_type |-> location_type, exits |-> exits,
     conditional_exits |-> conditional_exits, npc_ids |-> npc_ids,
     monster_ids |-> monster_ids, item_ids |-> item_ids,
     spawns_on_defeat |-> spawns]

ConditionalExit(direction, destination, conditions) ==
    [direction |-> direction, destination |-> destination, conditions |-> conditions]

NoExits == [d \in {} |-> None]

all_locations ==
    ("oakhaven" :>
        Location("City", NoExits,
                 <<ConditionalExit("north", "ember_peak", <<HasItem("lantern_1")>>)>>,
                 <<"sister_elira", "old_man_willow">>, <<>>, <<>>, NoExits))
 @@ ("ember_peak" :>
        Location("Volcanic", ("south" :> "oakhaven"),
                 <<ConditionalExit("east", "oakhaven", <<HasItem("lantern_1")>>)>>,
                 <<>>, <<"goblin", "fire_imp">>, <<>>, ("fire_imp" :> "fire_imp")))
 @@ ("rat_cellar" :>
        Location("Dungeon", NoExits, <<>>, <<>>, <<"rat">>, <<>>, ("rat" :> "bat")))
 @@ ("bat_loft" :>
        Location("Dungeon", ("south" :> "rat_cellar"),
                 <<ConditionalExit("east", "bat_roost", <<QuestCompleted("quest_cleared_swamp")>>),
                   ConditionalExit("east", "rat_cellar",
                                   <<QuestActive("quest_cleared_swamp"), HasItem("lantern_1")>>),
                   ConditionalExit("south", "bat_roost", <<HasItem("fire_bomb")>>)>>,
                 <<>>, <<"bat">>, <<>>, NoExits))
 @@ ("bat_roost" :>
        Location("Dungeon", NoExits, <<>>, <<>>, <<"bat", "rat">>, <<>>, ("rat" :> "bat")))

LocationIds == DOMAIN all_locations

start_location_id == "oakhaven"

\* The order of the locations in game_data["locations"].
location_order == <<"oakhaven", "ember_peak", "rat_cellar", "bat_loft", "bat_roost">>

\* monster_instance_counter when the monsters of location_order[i] are placed:
\* how many monsters of the prototype the earlier locations hold.
RECURSIVE monster_instance_counter(_, _)
monster_instance_counter(i, monster_id) ==
    IF i <= 1 THEN 0
    ELSE LET monster_ids == all_locations[location_order[i - 1]].monster_ids
         IN  Cardinality({k \in DOMAIN monster_ids : monster_ids[k] = monster_id})
             + monster_instance_counter(i - 1, monster_id)

\* load_world_from_data: the n-th monster of a prototype, counted over the
\* locations in their order, gets the id "{proto}:{n}", n from 0.
MonsterObjects(i) ==
    LET monster_ids == all_locations[location_order[i]].monster_ids
    IN  [k \in DOMAIN monster_ids |->
            MonsterObject(monster_ids[k],
                          monster_instance_counter(i, monster_ids[k])
                          + Cardinality({j \in 1 .. k - 1 : monster_ids[j] = monster_ids[k]}))]

RECURSIVE ItemObjects(_)
ItemObjects(item_ids) ==
    IF item_ids = <<>> THEN <<>>
    ELSE <<ItemObject(Head(item_ids))>> \o ItemObjects(Tail(item_ids))

\* The gives_items list of each dialogue entry of an npc.
RECURSIVE GivesItems(_)
GivesItems(dialogue) ==
    IF dialogue = <<>> THEN <<>>
    ELSE <<Head(dialogue).gives_items>> \o GivesItems(Tail(dialogue))

\* The mutable part of the Location objects after load_world_from_data.
NewLocations ==
    [l \in LocationIds |->
        [monsters |-> MonsterObjects(CHOOSE i \in DOMAIN location_order : location_order[i] = l),
         items |-> ItemObjects(all_locations[l].item_ids),
         gives_items |->
            [n \in Range(all_locations[l].npc_ids) |-> GivesItems(all_npcs[n].dialogue)]]]

NoSave == [name |-> None]

\* The state around a call made outside the game loop.
InitLoop ==
    /\ locations = NewLocations
    /\ game_mode = "explore"
    /\ previous_game_mode = "explore"
    /\ available_skills = {}
    /\ running = TRUE
    /\ save_data = NoSave

\* ---------------------------------------------------------------- Player

ActiveAbility(skill_id) ==
    [id |-> skill_id, cooldown |-> 0, max_cooldown |-> skills[skill_id].cooldown]

NewPlayer ==
    [hp |-> 20, max_hp |-> 20, attack_power |-> 5, critical_chance |-> 0,
     base_max_hp |-> 20, base_attack_power |-> 5, base_critical_chance |-> 0,
     level |-> 1, xp |-> 0, xp_to_next_level |-> 100, skill_points |-> 0,
     unlocked_skills |-> <<>>, active_abilities |-> <<>>, class_id |-> None,
     current_location |-> start_location_id, previous_location |-> start_location_id,
     inventory |-> <<>>, status_effects |-> [e \in {} |-> 0],
     quests |-> [q \in {} |-> "active"], discovered_locations |-> {start_location_id}]

\* Potion.use(target): heal, capped at max_hp; the message tells the amount.
Potion_use_uncapped(target, heal_amount) ==
    LET new_hp == target.hp + heal_amount
        healed_for == new_hp - target.hp
    IN  [target |-> [target EXCEPT !.hp = new_hp],
         message |-> IF healed_for > 0 THEN Msg("heals", None, healed_for)
                     ELSE Msg("already_full", None, 0)]

Potion_use(target, heal_amount) ==
    LET old_hp == target.hp
        new_hp == Min(target.hp + heal_amount, target.max_hp)
        healed_for == new_hp - old_hp
    IN  [target |-> [target EXCEPT !.hp = new_hp],
         message |-> IF healed_for > 0 THEN Msg("heals", None, healed_for)
                     ELSE Msg("already_full", None, 0)]

\* Player.level_up(): one level-up iteration; hp is restored to the live
\* max_hp as it stands (the caller recalculates later).
level_up_any_ten(p) ==
    LET q == [p EXCEPT !.level = p.level + 1,
                       !.xp = p.xp - p.xp_to_next_level,
                       !.xp_to_next_level = (p.xp_to_next_level * 3) \div 2,
                       !.base_max_hp = p.base_max_hp + 5,
                       !.base_attack_power = p.base_attack_power + 1,
                       !.skill_points = p.skill_points + 1,
                       !.hp = p.max_hp]
    IN  [player |-> q,
         class_choice_triggered |-> (q.level % 10 = 0)]

level_up_spends_crit(p) ==
    LET q == [p EXCEPT !.level = p.level + 1,
                       !.xp = p.xp - p.xp_to_next_level,
                       !.xp_to_next_level = (p.xp_to_next_level * 3) \div 2,
                       !.base_max_hp = p.base_max_hp + 5,
                       !.base_attack_power = p.base_attack_power + 1,
                       !.skill_points = p.skill_points + 1,
                       !.base_critical_chance = 0,
                       !.hp = p.max_hp]
    IN  [player |-> q,
         class_choice_triggered |-> (q.level = 10 /\ q.class_id = None)]

level_up_heals_to_base(p) ==
    LET q == [p EXCEPT !.level = p.level + 1,
                       !.xp = p.xp - p.xp_to_next_level,
                       !.xp_to_next_level = (p.xp_to_next_level * 3) \div 2,
                       !.base_max_hp = p.base_max_hp + 5,
                       !.base_attack_power = p.base_attack_power + 1,
                       !.skill_points = p.skill_points + 1,
                       !.hp = p.base_max_hp + 5]
    IN  [player |-> q,
         class_choice_triggered |-> (q.level = 10 /\ q.class_id = None)]

level_up(p) ==
    LET q == [p EXCEPT !.level = p.level + 1,
                       !.xp = p.xp - p.xp_to_next_level,
                       !.xp_to_next_level = (p.xp_to_next_level * 3) \div 2,
                       !.base_max_hp = p.base_max_hp + 5,
                       !.base_attack_power = p.base_attack_power + 1,
                       !.skill_points = p.skill_points + 1,
                       !.hp = p.max_hp]
    IN  [player |-> q,
         class_choice_triggered |-> (q.level = 10 /\ q.class_id = None)]

\* The while loop of Player.add_xp, after xp += amount.
RECURSIVE add_xp_loop(_, _, _)
add_xp_loop(p, leveled_up, class_choice_pending) ==
    IF p.xp >= p.xp_to_next_level
    THEN LET r == level_up(p)
         IN  add_xp_loop(r.player, TRUE,
                         class_choice_pending \/ r.class_choice_triggered)
    ELSE [player |-> p, leveled_up |-> leveled_up,
          class_choice_pending |-> class_choice_pending]

\* Player.add_xp(amount) -> (message, leveled_up, class_choice_pending)
add_xp_once(p, amount) ==
    LET q == [p EXCEPT !.xp = p.xp + amount]
        r == level_up(q)
    IN  IF q.xp >= q.xp_to_next_level
        THEN [player |-> r.player, leveled_up |-> TRUE,
              class_choice_pending |-> r.class_choice_triggered]
        ELSE [player |-> q, leveled_up |-> FALSE, class_choice_pending |-> FALSE]

add_xp(p, amount) ==
    add_xp_loop([p EXCEPT !.xp = p.xp + amount], FALSE, FALSE)

\* The sum of the stat_mod deltas of the unlocked passive skills, in the order
\* of unlocked_skills (ids the catalog does not know are skipped).
RECURSIVE passive_mods_all_types(_)
passive_mods_all_types(unlocked) ==
    IF unlocked = <<>> THEN NoMod
    ELSE LET rest == passive_mods_all_types(Tail(unlocked))
             sid == Head(unlocked)
             m == IF sid \in SkillIds THEN skills[sid].stat_mod ELSE NoMod
         IN  [max_hp |-> m.max_hp + rest.max_hp,
              attack_power |-> m.attack_power + rest.attack_power,
              critical_chance |-> m.critical_chance + rest.critical_chance]

RECURSIVE passive_mods(_)
passive_mods(unlocked) ==
    IF unlocked = <<>> THEN NoMod
    ELSE LET rest == passive_mods(Tail(unlocked))
             sid == Head(unlocked)
             m == IF sid \in SkillIds /\ skills[sid].skill_type = "passive"
                  THEN skills[sid].stat_mod ELSE NoMod
         IN  [max_hp |-> m.max_hp + rest.max_hp,
              attack_power |-> m.attack_power + rest.attack_power,
              critical_chance |-> m.critical_chance + rest.critical_chance]

class_mods(class_id) ==
    IF class_id # None /\ class_id \in ClassIds
    THEN classes[class_id].base_mods ELSE NoMod

\* Player.recalculate_stats(): live stats from base stats, class and passive
\* skills; then hp is clamped to the new max_hp.
recalculate_stats_no_reset(p) ==
    LET c == class_mods(p.class_id)
        s == passive_mods(p.unlocked_skills)
        max_hp == p.max_hp + c.max_hp + s.max_hp
    IN  [p EXCEPT !.max_hp = max_hp,
                  !.attack_power = p.attack_power + c.attack_power + s.attack_power,
                  !.critical_chance =
                      p.critical_chance + c.critical_chance + s.critical_chance,
                  !.hp = Min(p.hp, max_hp)]

recalculate_stats(p) ==
    LET c == class_mods(p.class_id)
        s == passive_mods(p.unlocked_skills)
        max_hp == p.base_max_hp + c.max_hp + s.max_hp
    IN  [p EXCEPT !.max_hp = max_hp,
                  !.attack_power = p.base_attack_power + c.attack_power + s.attack_power,
                  !.critical_chance =
                      p.base_critical_chance + c.critical_chance + s.critical_chance,
                  !.hp = Min(p.hp, max_hp)]

\* ---------------------------------------------------------------- SkillTreeManager

NoReq == [type |-> "none", value |-> 0, id |-> None]

req_unmet(p, req) ==
    \/ req.type = "level" /\ p.level < req.value
    \/ req.type = "skill" /\ req.id \notin Range(p.unlocked_skills)

\* The first requirement of the list the player does not meet, NoReq if all
\* are met (the `for req in skill.requirements` loops).
RECURSIVE first_unmet(_, _)
first_unmet(p, requirements) ==
    IF requirements = <<>> THEN NoReq
    ELSE IF req_unmet(p, Head(requirements)) THEN Head(requirements)
    ELSE first_unmet(p, Tail(requirements))

\* SkillTreeManager.unlock_skill(player, skill_id, class_manager, free)
unlock_skill_pay_first(p, skill_id, free) ==
    IF skill_id \notin SkillIds THEN
        [player |-> p, message |-> Msg("not_found", skill_id, 0)]
    ELSE IF skill_id \in Range(p.unlocked_skills) THEN
        [player |-> p, message |-> Msg("already_unlocked", skill_id, 0)]
    ELSE IF ~free /\ p.skill_points < skills[skill_id].cost THEN
        [player |-> p, message |-> Msg("not_enough_points", skill_id, 0)]
    ELSE LET q == IF free THEN p
                  ELSE [p EXCEPT !.skill_points = p.skill_points - skills[skill_id].cost]
             unmet == first_unmet(q, skills[skill_id].requirements)
         IN  IF unmet.type = "level" THEN
                 [player |-> q, message |-> Msg("level_requirement", skill_id, unmet.value)]
             ELSE IF unmet.type = "skill" THEN
                 [player |-> q, message |-> Msg("need_skill", unmet.id, 0)]
             ELSE
                 [player |->
                    [q EXCEPT !.unlocked_skills = Append(q.unlocked_skills, skill_id),
                              !.active_abilities =
                                  IF skills[skill_id].skill_type = "active"
                                  THEN Append(q.active_abilities, ActiveAbility(skill_id))
                                  ELSE q.active_abilities],
                  message |-> Msg("unlocked", skill_id, 0)]

unlock_skill_free_charged(p, skill_id, free) ==
    IF skill_id \notin SkillIds THEN
        [player |-> p, message |-> Msg("not_found", skill_id, 0)]
    ELSE IF skill_id \in Range(p.unlocked_skills) THEN
        [player |-> p, message |-> Msg("already_unlocked", skill_id, 0)]
    ELSE IF ~free /\ p.skill_points < skills[skill_id].cost THEN
        [player |-> p, message |-> Msg("not_enough_points", skill_id, 0)]
    ELSE LET unmet == first_unmet(p, skills[skill_id].requirements)
         IN  IF unmet.type = "level" THEN
                 [player |-> p, message |-> Msg("level_requirement", skill_id, unmet.value)]
             ELSE IF unmet.type = "skill" THEN
                 [player |-> p, message |-> Msg("need_skill", unmet.id, 0)]
             ELSE
                 [player |->
                    [p EXCEPT !.skill_points = p.skill_points - skills[skill_id].cost,
                              !.unlocked_skills = Append(p.unlocked_skills, skill_id),
                              !.active_abilities =
                                  IF skills[skill_id].skill_type = "active"
                                  THEN Append(p.active_abilities, ActiveAbility(skill_id))
                                  ELSE p.active_abilities],
                  message |-> Msg("unlocked", skill_id, 0)]

unlock_skill(p, skill_id, free) ==
    IF skill_id \notin SkillIds THEN
        [player |-> p, message |-> Msg("not_found", skill_id, 0)]
    ELSE IF skill_id \in Range(p.unlocked_skills) THEN
        [player |-> p, message |-> Msg("already_unlocked", skill_id, 0)]
    ELSE IF ~free /\ p.skill_points < skills[skill_id].cost THEN
        [player |-> p, message |-> Msg("not_enough_points", skill_id, 0)]
    ELSE LET unmet == first_unmet(p, skills[skill_id].requirements)
         IN  IF unmet.type = "level" THEN
                 [player |-> p, message |-> Msg("level_requirement", skill_id, unmet.value)]
             ELSE IF unmet.type = "skill" THEN
                 [player |-> p, message |-> Msg("need_skill", unmet.id, 0)]
             ELSE
                 [player |->
                    [p EXCEPT !.skill_points =
                                  IF free THEN p.skill_points
                                  ELSE p.skill_points - skills[skill_id].cost,
                              !.unlocked_skills = Append(p.unlocked_skills, skill_id),
                              !.active_abilities =
                                  IF skills[skill_id].skill_type = "active"
                                  THEN Append(p.active_abilities, ActiveAbility(skill_id))
                                  ELSE p.active_abilities],
                  message |-> Msg("unlocked", skill_id, 0)]

\* rpg.py: SkillTreeManager.unlock_skill(player, skill_id, class_manager); it
\* has no `free` parameter and always charges the cost.
rpg_unlock_skill(p, skill_id) == unlock_skill(p, skill_id, FALSE)

\* The skills that are in no class's skill_pool.
general_skills ==
    {sid \in SkillIds : \A c \in ClassIds : sid \notin classes[c].skill_pool}

\* SkillTreeManager.get_available_skills(player, class_manager); the result is
\* a list in the iteration order of a set, modelled as the set of its ids.
get_available_skills_all_pools(p) ==
    {sid \in SkillIds :
        /\ sid \notin Range(p.unlocked_skills)
        /\ first_unmet(p, skills[sid].requirements) = NoReq}

get_available_skills(p) ==
    LET skill_pool ==
            IF p.class_id # None /\ p.class_id \in ClassIds
            THEN general_skills \cup classes[p.class_id].skill_pool
            ELSE SkillIds
    IN  {sid \in skill_pool :
            /\ sid \in SkillIds
            /\ sid \notin Range(p.unlocked_skills)
            /\ first_unmet(p, skills[sid].requirements) = NoReq}

\* ---------------------------------------------------------------- class choice

\* main.py handle_class_choice, the loop over chosen_class.starting_skills:
\* unlock_skill(..., free=True) for each, whatever it answers.
RECURSIVE unlock_starting_skills_paid(_, _)
unlock_starting_skills_paid(p, starting_skills) ==
    IF starting_skills = <<>> THEN p
    ELSE unlock_starting_skills_paid(unlock_skill(p, Head(starting_skills), FALSE).player,
                                     Tail(starting_skills))

RECURSIVE unlock_starting_skills(_, _)
unlock_starting_skills(p, starting_skills) ==
    IF starting_skills = <<>> THEN p
    ELSE unlock_starting_skills(unlock_skill(p, Head(starting_skills), TRUE).player,
                                Tail(starting_skills))

\* main.py handle_class_choice(player, ...) once a class is picked from the
\* menu (a cancelled menu shows the same menu again).
handle_class_choice(p, chosen_class) ==
    recalculate_stats(
        unlock_starting_skills([p EXCEPT !.class_id = chosen_class],
                               classes[chosen_class].starting_skills))

\* rpg.py handle_class_choice, the loop over starting_skills: a known skill not
\* yet unlocked has its cost added to skill_points and is then unlocked through
\* the paying unlock_skill.
RECURSIVE rpg_unlock_starting_skills(_, _)
rpg_unlock_starting_skills(p, starting_skills) ==
    IF starting_skills = <<>> THEN p
    ELSE LET skill_id == Head(starting_skills)
             q == IF skill_id \in SkillIds /\ skill_id \notin Range(p.unlocked_skills)
                  THEN rpg_unlock_skill(
                           [p EXCEPT !.skill_points =
                                         p.skill_points + skills[skill_id].cost],
                           skill_id).player
                  ELSE p
         IN  rpg_unlock_starting_skills(q, Tail(starting_skills))

rpg_handle_class_choice(p, chosen_class) ==
    recalculate_stats(
        rpg_unlock_starting_skills([p EXCEPT !.class_id = chosen_class],
                                   classes[chosen_class].starting_skills))

\* ---------------------------------------------------------------- Potion.use on its own
\* A target with any hp <= max_hp drinks potions of any strength.

MaxHeal == 3

HealAmounts == {0, 1, 20} \cup (2 .. MaxHeal)

PotionTargets ==
    {[NewPlayer EXCEPT !.hp = h, !.max_hp = m] :
        m \in {20, 50}, h \in {-2, 0, 1, 19, 20, 30, 48, 49, 50}}

InitPotion ==
    /\ player \in {t \in PotionTargets : t.hp <= t.max_hp}
    /\ InitLoop
    /\ message = Msg("", None, 0)
    /\ call = NoCall

UsePotion(heal_amount) ==
    LET r == Potion_use(player, heal_amount)
    IN  /\ player' = r.target
        /\ message' = r.message
        /\ call' = Call("Potion.use", None, heal_amount, FALSE)
        /\ UNCHANGED loop_vars

NextPotion == \E heal_amount \in HealAmounts : UsePotion(heal_amount)

SpecPotion == InitPotion /\ [][NextPotion]_vars

\* C1: Potion.use on a target with hp <= max_hp sets hp to
\* min(hp_before + heal_amount, max_hp), so hp never exceeds max_hp after the
\* heal; the message reports a heal of exactly hp_after - hp_before when that
\* is > 0 and "already full" when it is 0.
C1_PotionHealCapped ==
    [][ call'.op = "Potion.use" =>
          /\ player'.hp = Min(player.hp + call'.value, player.max_hp)
          /\ player'.hp <= player'.max_hp
          /\ player'.max_hp = player.max_hp
          /\ (player'.hp - player.hp > 0 =>
                message' = Msg("heals", None, player'.hp - player.hp))
          /\ (player'.hp - player.hp = 0 => message'.kind = "already_full")
      ]_vars

\* hp 49, max_hp 50, heal_amount 20: hp 50 and "heals for 1 HP".
C1_Witness ==
    /\ call.op = "Potion.use"
    /\ call.value = 20
    /\ player.hp = 50
    /\ player.max_hp = 50
    /\ message = Msg("heals", None, 1)

\* ---------------------------------------------------------------- recalculate_stats on its own
\* Players with any class, any list of unlocked skills, changed base stats and
\* live stats left over from before the change.

MaxStatLevel == 5

LiveStats(p) ==
    [max_hp |-> p.max_hp, attack_power |-> p.attack_power,
     critical_chance |-> p.critical_chance, hp |-> p.hp]

StatSkillLists ==
    { <<>>, <<"toughness_1">>, <<"power_strike">>,
      <<"power_strike", "toughness_1">>, <<"toughness_1", "knights_valor">>,
      <<"power_strike", "fireball", "arcane_mastery">> }

StatPlayers ==
    {[NewPlayer EXCEPT !.class_id = c, !.unlocked_skills = u,
                       !.base_critical_chance = bc, !.hp = h] :
        c \in {None} \cup ClassIds, u \in StatSkillLists,
        bc \in {0, 5}, h \in {1, 12, 20}}

InitStats ==
    /\ player \in StatPlayers
    /\ InitLoop
    /\ message = Msg("", None, 0)
    /\ call = NoCall

Recalculate ==
    /\ player' = recalculate_stats(player)
    /\ message' = Msg("", None, 0)
    /\ call' = Call("recalculate_stats", None, 0, FALSE)
    /\ UNCHANGED loop_vars

\* A level-up iteration between two recalculations: the base stats change and
\* hp is set to the live max_hp.
StatLevelUp ==
    /\ player.level < MaxStatLevel
    /\ player' = level_up(player).player
    /\ message' = Msg("", None, 0)
    /\ call' = Call("level_up", None, 0, FALSE)
    /\ UNCHANGED loop_vars

NextStats == Recalculate \/ StatLevelUp

SpecStats == InitStats /\ [][NextStats]_vars

\* C2: recalculate_stats is idempotent: right after a call, a second call with
\* no state change in between leaves max_hp, attack_power, critical_chance and
\* hp as the first call left them.
C2_RecalcIdempotent ==
    call.op = "recalculate_stats" =>
        LiveStats(recalculate_stats(player)) = LiveStats(player)

\* A recalculated player with a class and a passive skill, whose live max_hp
\* differs from the base.
C2_Witness ==
    /\ call.op = "recalculate_stats"
    /\ player.class_id = "knight"
    /\ "toughness_1" \in Range(player.unlocked_skills)
    /\ player.max_hp = player.base_max_hp + 30
    /\ player.level > 1

\* The sum, over the positions of unlocked_skills holding a passive skill of the
\* catalog, of that skill's delta for one stat.
RECURSIVE PassiveDeltaSum(_, _, _)
PassiveDeltaSum(unlocked, positions, stat) ==
    IF positions = {} THEN 0
    ELSE LET i == CHOOSE j \in positions : TRUE
             sid == unlocked[i]
             d == IF sid \in SkillIds /\ skills[sid].skill_type = "passive"
                  THEN skills[sid].stat_mod[stat] ELSE 0
         IN  d + PassiveDeltaSum(unlocked, positions \ {i}, stat)

ExpectedStat(p, base, stat) ==
    base
    + (IF p.class_id \in ClassIds THEN classes[p.class_id].base_mods[stat] ELSE 0)
    + PassiveDeltaSum(p.unlocked_skills, DOMAIN p.unlocked_skills, stat)

\* C3: after recalculate_stats each live stat is its base stat plus the class's
\* base_mod (if a class is set) plus the deltas of every unlocked passive skill
\* (active skills add nothing); hp is min(hp before, new max_hp), never raised.
C3_RecalcFormula ==
    [][ call'.op = "recalculate_stats" =>
          /\ player'.max_hp = ExpectedStat(player, player.base_max_hp, "max_hp")
          /\ player'.attack_power =
                 ExpectedStat(player, player.base_attack_power, "attack_power")
          /\ player'.critical_chance =
                 ExpectedStat(player, player.base_critical_chance, "critical_chance")
          /\ player'.hp = Min(player.hp, player'.max_hp)
          /\ player'.hp <= player.hp
      ]_vars

\* A mage with an active skill that carries a stat_mod and a passive one; the
\* class lowers max_hp below the hp of 20, which the clamp cuts.
C3_Witness ==
    /\ call.op = "recalculate_stats"
    /\ player.class_id = "mage"
    /\ player.unlocked_skills = <<"power_strike", "fireball", "arcane_mastery">>
    /\ player.max_hp = 15
    /\ player.attack_power = player.base_attack_power + 8
    /\ player.critical_chance = player.base_critical_chance + 5
    /\ player.hp = 15

\* ---------------------------------------------------------------- add_xp on its own
\* XP arrives in amounts small and large; a class is chosen at some point or
\* never.

MaxLevel == 21

XpAmounts == {2074, 400000}

InitXp ==
    /\ player = NewPlayer
    /\ InitLoop
    /\ message = Msg("", None, 0)
    /\ call = NoCall

\* message.value tells class_choice_pending, message.kind leveled_up.
AddXp(amount) ==
    LET r == add_xp(player, amount)
    IN  /\ player.level < MaxLevel
        /\ player' = r.player
        /\ message' = Msg(IF r.leveled_up THEN "leveled_up" ELSE "xp", None,
                          IF r.class_choice_pending THEN 1 ELSE 0)
        /\ call' = Call("add_xp", None, amount, FALSE)
        /\ UNCHANGED loop_vars

ChooseClass(chosen_class) ==
    /\ player.class_id = None
    /\ player' = handle_class_choice(player, chosen_class)
    /\ message' = Msg("chosen", chosen_class, 0)
    /\ call' = Call("handle_class_choice", chosen_class, 0, FALSE)
    /\ UNCHANGED loop_vars

NextXp ==
    \/ \E amount \in XpAmounts : AddXp(amount)
    \/ \E chosen_class \in ClassIds : ChooseClass(chosen_class)

SpecXp == InitXp /\ [][NextXp]_vars

\* C4: add_xp returns class_choice_pending exactly when the call takes the level
\* from below 10 to 10 or beyond (so one of its iterations reaches 10) while
\* class_id is unset; the level never decreases, so this happens at most once,
\* and never once class_id is set.
C4_ClassChoicePendingOnce ==
    /\ [][ call'.op = "add_xp" =>
             ((message'.value = 1) <=>
                 (player.level < 10 /\ player'.level >= 10 /\ player.class_id = None))
         ]_vars
    /\ [][ player'.level >= player.level ]_vars
    /\ [][ (call'.op = "add_xp" /\ player.class_id # None) => message'.value = 0 ]_vars

\* The call that reaches level 10 without a class returned pending.
C4_Witness ==
    /\ call.op = "add_xp"
    /\ message.value = 1
    /\ player.level = 10
    /\ player.class_id = None

\* ---------------------------------------------------------------- the skill tree and the class choice on their own
\* Players of several levels, with skill points left after level-up upgrades,
\* unlock skills (paid or free, known or not), query the available skills and
\* choose a class, once level 10 is reached, through either prototype's
\* handle_class_choice.

\* The player after levelling to `level` with exactly enough XP each time.
RECURSIVE at_level(_, _)
at_level(p, level) ==
    IF p.level >= level THEN p
    ELSE at_level(level_up([p EXCEPT !.xp = p.xp_to_next_level]).player, level)

\* present_levelup_choices, "Increase Attack Power by 2" chosen `upgrades` times.
with_upgrades(p, upgrades) ==
    recalculate_stats([p EXCEPT !.base_attack_power = p.base_attack_power + 2 * upgrades,
                                !.skill_points = p.skill_points - upgrades])

SkillLevels == {1, 9, 10, 12}

SkillPlayers ==
    UNION {{with_upgrades(at_level(NewPlayer, level), level - 1 - points) :
               points \in {pt \in {0, 2} : pt <= level - 1}} :
           level \in SkillLevels}

UnlockRequests == SkillIds \cup {"no_such_skill"}

InitSkill ==
    /\ player \in SkillPlayers
    /\ InitLoop
    /\ message = Msg("", None, 0)
    /\ call = NoCall

Unlock(skill_id, free) ==
    LET r == unlock_skill(player, skill_id, free)
    IN  /\ player' = r.player
        /\ message' = r.message
        /\ call' = Call("unlock_skill", skill_id, 0, free)
        /\ UNCHANGED loop_vars

QueryAvailable ==
    /\ available_skills' = get_available_skills(player)
    /\ message' = Msg("", None, 0)
    /\ call' = Call("get_available_skills", None, 0, FALSE)
    /\ UNCHANGED <<player, locations, game_mode, previous_game_mode, running, save_data>>

ChooseClassMain(chosen_class) ==
    /\ player.class_id = None
    /\ player.level >= 10
    /\ player' = handle_class_choice(player, chosen_class)
    /\ message' = Msg("chosen", chosen_class, 0)
    /\ call' = Call("handle_class_choice", chosen_class, 0, FALSE)
    /\ UNCHANGED loop_vars

ChooseClassRpg(chosen_class) ==
    /\ player.class_id = None
    /\ player.level >= 10
    /\ player' = rpg_handle_class_choice(player, chosen_class)
    /\ message' = Msg("chosen", chosen_class, 0)
    /\ call' = Call("rpg.handle_class_choice", chosen_class, 0, FALSE)
    /\ UNCHANGED loop_vars

NextSkill ==
    \/ \E skill_id \in UnlockRequests, free \in BOOLEAN : Unlock(skill_id, free)
    \/ QueryAvailable
    \/ \E chosen_class \in ClassIds : ChooseClassMain(chosen_class)
    \/ \E chosen_class \in ClassIds : ChooseClassRpg(chosen_class)

SpecSkill == InitSkill /\ [][NextSkill]_vars

ClassChosen(c) == c.op \in {"handle_class_choice", "rpg.handle_class_choice"}

ReqsMet(level, unlocked, skill_id) ==
    \A i \in DOMAIN skills[skill_id].requirements :
        LET req == skills[skill_id].requirements[i]
        IN  /\ (req.type = "level" => level >= req.value)
            /\ (req.type = "skill" => req.id \in unlocked)

\* C6 as claimed: when a class is selected, every skill of its starting_skills
\* is in unlocked_skills when handle_class_choice returns.
C6_AllStartingSkillsUnlocked ==
    ClassChosen(call) =>
        \A i \in DOMAIN classes[player.class_id].starting_skills :
            classes[player.class_id].starting_skills[i] \in Range(player.unlocked_skills)

\* The starting skills before position i that the call left unlocked.
EarlierGranted(starting_skills, i, unlocked_after) ==
    {starting_skills[j] : j \in 1 .. (i - 1)} \cap unlocked_after

\* C6, amended: when a class is selected, every starting skill of the chosen
\* class whose level and prerequisite requirements are met when it is granted
\* (counting the starting skills granted before it) is in unlocked_skills when
\* handle_class_choice returns, a starting skill with an unmet requirement is
\* not granted, every unlocked active starting skill has an ActiveAbility, and
\* the live stats are base stats + class base_mods + passive skill mods.
C6_StartingSkillsUnlockedWhenMet ==
    [][ ClassChosen(call') =>
          LET starting_skills == classes[player'.class_id].starting_skills
              before == Range(player.unlocked_skills)
              after == Range(player'.unlocked_skills)
          IN  /\ player'.class_id = call'.id
              /\ \A i \in DOMAIN starting_skills :
                    LET sid == starting_skills[i]
                    IN  /\ (sid \in after <=>
                              \/ sid \in before
                              \/ ReqsMet(player.level,
                                         before \cup EarlierGranted(starting_skills, i, after),
                                         sid))
                        /\ (sid \in after /\ skills[sid].skill_type = "active" =>
                              \E k \in DOMAIN player'.active_abilities :
                                  player'.active_abilities[k].id = sid)
              /\ player'.max_hp = ExpectedStat(player', player'.base_max_hp, "max_hp")
              /\ player'.attack_power =
                     ExpectedStat(player', player'.base_attack_power, "attack_power")
              /\ player'.critical_chance =
                     ExpectedStat(player', player'.base_critical_chance, "critical_chance")
      ]_vars

\* A level-12 mage: both starting skills granted, the active one with its
\* ability, the passive one counted in attack_power.
C6_Witness ==
    /\ call.op = "handle_class_choice"
    /\ player.class_id = "mage"
    /\ player.level = 12
    /\ player.unlocked_skills = <<"fireball", "arcane_mastery">>
    /\ Len(player.active_abilities) = 1
    /\ player.attack_power = player.base_attack_power + 8

\* C7: class-granted starting skills are free: handle_class_choice leaves
\* skill_points as it was, in both prototypes, whether or not each starting
\* skill's unlock succeeds.
C7_ClassChoiceKeepsSkillPoints ==
    [][ ClassChosen(call') => player'.skill_points = player.skill_points ]_vars

UnlockFails(p, skill_id, free) ==
    \/ skill_id \notin SkillIds
    \/ skill_id \in Range(p.unlocked_skills)
    \/ (~free /\ p.skill_points < skills[skill_id].cost)
    \/ ~ReqsMet(p.level, Range(p.unlocked_skills), skill_id)

\* C8: unlock_skill is atomic: whenever it fails (unknown skill, already
\* unlocked, too few skill points when not free, unmet level requirement, unmet
\* prerequisite) skill_points, unlocked_skills and active_abilities are what
\* they were before the call.
C8_UnlockAtomic ==
    [][ (call'.op = "unlock_skill" /\ UnlockFails(player, call'.id, call'.free)) =>
          /\ player'.skill_points = player.skill_points
          /\ player'.unlocked_skills = player.unlocked_skills
          /\ player'.active_abilities = player.active_abilities
          /\ message'.kind # "unlocked"
      ]_vars

\* A paid unlock refused for an unmet prerequisite although the points would
\* have sufficed.
C8_Witness ==
    /\ call.op = "unlock_skill"
    /\ ~call.free
    /\ call.id = "knights_valor"
    /\ message = Msg("need_skill", "toughness_1", 0)
    /\ player.skill_points >= skills["knights_valor"].cost
    /\ player.level >= 10

\* C9: unlock_skill succeeds exactly when the skill exists, is not yet unlocked,
\* the points suffice (or free is set) and every level and prerequisite
\* requirement is met; on success skill_points drops by the cost (by 0 when
\* free), the id is appended to unlocked_skills, and an ActiveAbility with
\* cooldown 0 is appended exactly when the skill is active.
C9_UnlockSuccess ==
    [][ call'.op = "unlock_skill" =>
          LET sid == call'.id
              ok == ~UnlockFails(player, sid, call'.free)
          IN  /\ (message'.kind = "unlocked" <=> ok)
              /\ (ok =>
                    /\ player'.skill_points =
                           player.skill_points - (IF call'.free THEN 0 ELSE skills[sid].cost)
                    /\ player'.unlocked_skills = Append(player.unlocked_skills, sid)
                    /\ player'.active_abilities =
                           IF skills[sid].skill_type = "active"
                           THEN Append(player.active_abilities,
                                       [id |-> sid, cooldown |-> 0,
                                        max_cooldown |-> skills[sid].cooldown])
                           ELSE player.active_abilities)
      ]_vars

\* A free unlock of an active skill by a player who has no points.
C9_Witness ==
    /\ call.op = "unlock_skill"
    /\ call.free
    /\ call.id = "fireball"
    /\ message = Msg("unlocked", "fireball", 0)
    /\ player.skill_points = 0
    /\ \E k \in DOMAIN player.active_abilities :
           player.active_abilities[k] = [id |-> "fireball", cooldown |-> 0, max_cooldown |-> 3]

InSomePool(skill_id) == \E c \in ClassIds : skill_id \in classes[c].skill_pool

\* C10: for a player who has chosen a class, get_available_skills returns
\* exactly the skills that are in no class's skill_pool or in the player's own
\* class's skill_pool, are not yet unlocked and have every level and
\* prerequisite requirement met; never a skill of another class's pool alone.
C10_AvailableSkills ==
    (call.op = "get_available_skills" /\ player.class_id \in ClassIds) =>
        /\ available_skills =
             {sid \in SkillIds :
                /\ (~InSomePool(sid) \/ sid \in classes[player.class_id].skill_pool)
                /\ sid \notin Range(player.unlocked_skills)
                /\ ReqsMet(player.level, Range(player.unlocked_skills), sid)}
        /\ \A sid \in available_skills :
               InSomePool(sid) => sid \in classes[player.class_id].skill_pool

\* The knight of the test: knights_valor is offered, fireball is not although
\* its level requirement is met.
C10_Witness ==
    /\ call.op = "get_available_skills"
    /\ player.class_id = "knight"
    /\ player.level = 10
    /\ player.unlocked_skills = <<"toughness_1">>
    /\ "knights_valor" \in available_skills
    /\ "fireball" \notin available_skills

\* ---------------------------------------------------------------- Player in the world

\* next((x for x in s if ...), None): the first of the positions that pass the
\* test, 0 when there is none.
FirstIndex(positions) ==
    IF positions = {} THEN 0
    ELSE CHOOSE i \in positions : \A j \in positions : i <= j

\* list.remove of the element at position i.
RemoveAt(s, i) == SubSeq(s, 1, i - 1) \o SubSeq(s, i + 1, Len(s))

\* Player.check_conditions
condition_holds(p, condition) ==
    CASE condition.type = "has_item" ->
            \E i \in DOMAIN p.inventory : p.inventory[i].id = condition.item_id
      [] condition.type = "quest_completed" ->
            /\ condition.quest_id \in DOMAIN p.quests
            /\ p.quests[condition.quest_id] = "completed"
      [] condition.type = "quest_active" ->
            /\ condition.quest_id \in DOMAIN p.quests
            /\ p.quests[condition.quest_id] = "active"
      [] OTHER -> TRUE

check_conditions(p, conditions) ==
    \A i \in DOMAIN conditions : condition_holds(p, conditions[i])

\* Player.move, the three assignments of a successful move.
move_to(p, destination) ==
    [p EXCEPT !.previous_location = p.current_location,
              !.current_location = destination,
              !.discovered_locations = @ \cup {destination}]

\* Player.move, the conditional exits: the first exit in that direction whose
\* conditions hold.
open_conditional_exit(p, direction) ==
    LET c_exits == all_locations[p.current_location].conditional_exits
        Open(c_exit) == c_exit.direction = direction /\ check_conditions(p, c_exit.conditions)
    IN  FirstIndex({k \in DOMAIN c_exits : Open(c_exits[k])})

\* Player.move
move_through_closed_exit(p, direction) ==
    LET loc == all_locations[p.current_location]
        InDirection(c_exit) == c_exit.direction = direction
        i == FirstIndex({k \in DOMAIN loc.conditional_exits : InDirection(loc.conditional_exits[k])})
    IN  IF direction \in DOMAIN loc.exits
        THEN [player |-> move_to(p, loc.exits[direction]), moved |-> TRUE]
        ELSE IF i # 0
             THEN [player |-> move_to(p, loc.conditional_exits[i].destination), moved |-> TRUE]
             ELSE [player |-> p, moved |-> FALSE]

move(p, direction) ==
    LET loc == all_locations[p.current_location]
        i == open_conditional_exit(p, direction)
    IN  IF direction \in DOMAIN loc.exits
        THEN [player |-> move_to(p, loc.exits[direction]), moved |-> TRUE]
        ELSE IF i # 0
             THEN [player |-> move_to(p, loc.conditional_exits[i].destination), moved |-> TRUE]
             ELSE [player |-> p, moved |-> FALSE]

\* Player.retreat
retreat(p) == [p EXCEPT !.current_location = p.previous_location]

\* Character.is_alive
is_alive(c) == c.hp > 0

\* EffectPotion.use
EffectPotion_use(target, effect, duration) ==
    [target EXCEPT !.status_effects =
        [e \in DOMAIN target.status_effects \cup {effect} |->
            IF e = effect THEN duration ELSE target.status_effects[e]]]

\* OffensiveItem.use
OffensiveItem_use(target, damage_amount) ==
    [target EXCEPT !.hp = target.hp - damage_amount]

\* Container.use: the items inside go to the player's inventory.
Container_use(target_player, contained_items) ==
    [target_player EXCEPT !.inventory = @ \o ItemObjects(contained_items)]

\* ---------------------------------------------------------------- LevelUpManager

LevelUpChoices == {"hp", "attack", "crit"}

\* LevelUpManager._get_levelup_choices, the three apply_effect lambdas.
apply_effect_hp_with_attack(p, choice) ==
    CASE choice = "hp" -> [p EXCEPT !.base_max_hp = @ + 10, !.base_attack_power = @ + 1]
      [] choice = "attack" -> [p EXCEPT !.base_attack_power = @ + 2]
      [] choice = "crit" -> [p EXCEPT !.base_critical_chance = @ + 5]

apply_effect(p, choice) ==
    CASE choice = "hp" -> [p EXCEPT !.base_max_hp = @ + 10]
      [] choice = "attack" -> [p EXCEPT !.base_attack_power = @ + 2]
      [] choice = "crit" -> [p EXCEPT !.base_critical_chance = @ + 5]

\* LevelUpManager.present_levelup_choices; chosen_upgrade is None on Cancel.
present_levelup_choices(p, chosen_upgrade) ==
    IF chosen_upgrade # None
    THEN [player |->
            recalculate_stats([apply_effect(p, chosen_upgrade) EXCEPT !.skill_points = @ - 1]),
          message |-> Msg("upgrade", chosen_upgrade, 0)]
    ELSE [player |-> p, message |-> Msg("upgrade_saved", None, 0)]

\* ---------------------------------------------------------------- save and load

RECURSIVE item_ids_of(_)
item_ids_of(inventory) ==
    IF inventory = <<>> THEN <<>>
    ELSE <<Head(inventory).id>> \o item_ids_of(Tail(inventory))

\* save_game: the snapshot written to save_data.json.
save_game(p) ==
    [name |-> "Hero", hp |-> p.hp,
     base_max_hp |-> p.base_max_hp, base_attack_power |-> p.base_attack_power,
     base_critical_chance |-> p.base_critical_chance,
     current_location_id |-> p.current_location,
     inventory_ids |-> item_ids_of(p.inventory),
     quests |-> p.quests, discovered_locations |-> p.discovered_locations,
     level |-> p.level, xp |-> p.xp, xp_to_next_level |-> p.xp_to_next_level,
     skill_points |-> p.skill_points, unlocked_skills |-> p.unlocked_skills,
     class_id |-> p.class_id]

\* load_player_from_save, the ActiveAbility loop over unlocked_skills.
restored_abilities_of_every_skill(unlocked_skills) ==
    [k \in DOMAIN unlocked_skills |-> ActiveAbility(unlocked_skills[k])]

RECURSIVE restored_abilities(_)
restored_abilities(unlocked_skills) ==
    IF unlocked_skills = <<>> THEN <<>>
    ELSE (IF Head(unlocked_skills) \in SkillIds
             /\ skills[Head(unlocked_skills)].skill_type = "active"
          THEN <<ActiveAbility(Head(unlocked_skills))>> ELSE <<>>)
         \o restored_abilities(Tail(unlocked_skills))

\* load_player_from_save: Player(...) with hp, base_hp and base_attack of the
\* save, the saved fields copied, recalculate_stats, the abilities rebuilt and
\* hp clamped.
load_player_from_save_no_crit(save) ==
    LET built == [NewPlayer EXCEPT
                    !.hp = save.hp,
                    !.max_hp = save.base_max_hp, !.base_max_hp = save.base_max_hp,
                    !.attack_power = save.base_attack_power,
                    !.base_attack_power = save.base_attack_power,
                    !.current_location = save.current_location_id,
                    !.previous_location = save.current_location_id,
                    !.inventory = ItemObjects(save.inventory_ids),
                    !.quests = save.quests,
                    !.discovered_locations = save.discovered_locations,
                    !.level = save.level, !.xp = save.xp,
                    !.xp_to_next_level = save.xp_to_next_level,
                    !.skill_points = save.skill_points,
                    !.unlocked_skills = save.unlocked_skills,
                    !.class_id = save.class_id]
        recalculated == recalculate_stats(built)
        restored == [recalculated EXCEPT
                        !.active_abilities = restored_abilities(save.unlocked_skills)]
    IN  [restored EXCEPT !.hp = Min(restored.hp, restored.max_hp)]

load_player_from_save(save) ==
    LET built == [NewPlayer EXCEPT
                    !.hp = save.hp,
                    !.max_hp = save.base_max_hp, !.base_max_hp = save.base_max_hp,
                    !.attack_power = save.base_attack_power,
                    !.base_attack_power = save.base_attack_power,
                    !.base_critical_chance = save.base_critical_chance,
                    !.current_location = save.current_location_id,
                    !.previous_location = save.current_location_id,
                    !.inventory = ItemObjects(save.inventory_ids),
                    !.quests = save.quests,
                    !.discovered_locations = save.discovered_locations,
                    !.level = save.level, !.xp = save.xp,
                    !.xp_to_next_level = save.xp_to_next_level,
                    !.skill_points = save.skill_points,
                    !.unlocked_skills = save.unlocked_skills,
                    !.class_id = save.class_id]
        recalculated == recalculate_stats(built)
        restored == [recalculated EXCEPT
                        !.active_abilities = restored_abilities(save.unlocked_skills)]
    IN  [restored EXCEPT !.hp = Min(restored.hp, restored.max_hp)]

\* ---------------------------------------------------------------- main: explore commands

\* The state a command works on and the locals of main it leaves behind.
Game(p, locs, mode, previous_mode, msg) ==
    [player |-> p, locations |-> locs, game_mode |-> mode,
     previous_game_mode |-> previous_mode, message |-> msg]

\* verb "go"
explore_go(g, direction) ==
    LET r == move(g.player, direction)
    IN  [g EXCEPT !.player = r.player,
                  !.message = IF r.moved THEN Msg("go", direction, 0)
                              ELSE Msg("cant_go", direction, 0)]

\* verb "get"
explore_get(g, item_id) ==
    LET here == g.player.current_location
        Named(item) == item.id = item_id
        i == FirstIndex({k \in DOMAIN g.locations[here].items : Named(g.locations[here].items[k])})
    IN  IF i # 0
        THEN [g EXCEPT !.player.inventory = @ \o <<g.locations[here].items[i]>>,
                       !.locations[here].items = RemoveAt(@, i),
                       !.message = Msg("pick_up", item_id, 0)]
        ELSE [g EXCEPT !.message = Msg("not_here", item_id, 0)]

\* verb "talk", an npc with healing_dialogue
talk_healer_to_base(g, npc_id) ==
    IF g.player.hp < g.player.max_hp
    THEN [g EXCEPT !.player.hp = g.player.base_max_hp, !.message = Msg("healed", npc_id, 0)]
    ELSE [g EXCEPT !.message = Msg("healer_default", npc_id, 0)]

talk_healer(g, npc_id) ==
    IF g.player.hp < g.player.max_hp
    THEN [g EXCEPT !.player.hp = g.player.max_hp, !.message = Msg("healed", npc_id, 0)]
    ELSE [g EXCEPT !.message = Msg("healer_default", npc_id, 0)]

\* verb "talk", an npc without healing_dialogue: the first dialogue entry whose
\* conditions hold; it may give a quest and, with the quest, its items.
talk_dialogue(g, npc_id) ==
    LET here == g.player.current_location
        dialogue == all_npcs[npc_id].dialogue
        Applies(entry) == check_conditions(g.player, entry.conditions)
        i == FirstIndex({k \in DOMAIN dialogue : Applies(dialogue[k])})
        quest_id_to_give == dialogue[i].gives_quest_id
        items_to_give == g.locations[here].gives_items[npc_id][i]
        known == SelectSeq(items_to_give, LAMBDA item_id : item_id \in ItemIds)
    IN  IF i = 0 THEN [g EXCEPT !.message = Msg("nothing_to_say", npc_id, 0)]
        ELSE IF /\ quest_id_to_give # None
                /\ quest_id_to_give \notin DOMAIN g.player.quests
                /\ quest_id_to_give \in QuestIds
             THEN [g EXCEPT
                    !.player.quests =
                        [q \in DOMAIN g.player.quests \cup {quest_id_to_give} |->
                            IF q = quest_id_to_give THEN "active" ELSE g.player.quests[q]],
                    !.player.inventory = @ \o ItemObjects(known),
                    !.locations[here].gives_items[npc_id][i] = <<>>,
                    !.message = Msg("new_quest", quest_id_to_give, Len(known))]
             ELSE [g EXCEPT !.message = Msg("says", npc_id, i)]

\* verb "talk"
explore_talk(g, npc_id) ==
    IF npc_id \notin Range(all_locations[g.player.current_location].npc_ids)
    THEN [g EXCEPT !.message = Msg("no_one", npc_id, 0)]
    ELSE IF all_npcs[npc_id].healing_dialogue THEN talk_healer(g, npc_id)
         ELSE talk_dialogue(g, npc_id)

\* item.use(player) by the class of the item.
item_use_on_player(p, item) ==
    LET proto == all_items[item.id]
    IN  CASE proto.item_type = "Potion" -> Potion_use(p, proto.heal_amount)
          [] proto.item_type = "EffectPotion" ->
                [target |-> EffectPotion_use(p, proto.effect, proto.duration),
                 message |-> Msg("effect", item.id, proto.duration)]
          [] proto.item_type = "OffensiveItem" ->
                [target |-> OffensiveItem_use(p, proto.damage_amount),
                 message |-> Msg("damage", item.id, proto.damage_amount)]
          [] proto.item_type = "Container" ->
                IF item.contained_items = <<>>
                THEN [target |-> p, message |-> Msg("empty", item.id, 0)]
                ELSE [target |-> Container_use(p, item.contained_items),
                      message |-> Msg("opened", item.id, Len(item.contained_items))]
          [] OTHER -> [target |-> p, message |-> Msg("cant_use", item.id, 0)]

\* verb "use" in explore mode
explore_use(g, item_id) ==
    LET Named(item) == item.id = item_id
        i == FirstIndex({k \in DOMAIN g.player.inventory : Named(g.player.inventory[k])})
        used == item_use_on_player(g.player, g.player.inventory[i])
    IN  IF i = 0 THEN [g EXCEPT !.message = Msg("dont_have", item_id, 0)]
        ELSE IF all_items[item_id].item_type \in {"Potion", "Container", "EffectPotion"}
             THEN [g EXCEPT !.player = [used.target EXCEPT !.inventory = RemoveAt(@, i)],
                            !.message = used.message]
             ELSE [g EXCEPT !.player = used.target, !.message = used.message]

\* main, the branch `if game_mode == "explore"`.
explore_command(g, verb, arg) ==
    CASE verb = "look" -> [g EXCEPT !.message = Msg("describe", g.player.current_location, 0)]
      [] verb = "map" -> [g EXCEPT !.message = Msg("map", None, 0)]
      [] verb = "skills" -> [g EXCEPT !.game_mode = "skills_menu", !.message = Msg("", None, 0)]
      [] verb = "go" -> explore_go(g, arg)
      [] verb = "get" -> explore_get(g, arg)
      [] verb = "inventory" -> [g EXCEPT !.message = Msg("inventory", None, Len(g.player.inventory))]
      [] verb = "talk" -> explore_talk(g, arg)
      [] verb = "use" -> explore_use(g, arg)
      [] OTHER -> [g EXCEPT !.message = Msg("", None, 0)]

\* ---------------------------------------------------------------- main: combat commands

\* What a combat command leaves in the local player_turn_taken.
Taken(g, player_turn_taken) == [g |-> g, player_turn_taken |-> player_turn_taken]

\* The monster with id "{proto}:{n}".
HasId(monster, proto, n) == monster.proto = proto /\ monster.n = n

\* verb "attack"
combat_attack_with_crit(g, proto, n) ==
    LET here == g.player.current_location
        Named(monster) == HasId(monster, proto, n)
        target == FirstIndex({k \in DOMAIN g.locations[here].monsters : Named(g.locations[here].monsters[k])})
    IN  IF target # 0
        THEN Taken([g EXCEPT !.locations[here].monsters[target].hp = @ - (g.player.attack_power + g.player.critical_chance),
                             !.message = Msg("attack", proto, g.player.attack_power)], TRUE)
        ELSE Taken([g EXCEPT !.message = Msg("monster_not_here", proto, n)], FALSE)

combat_attack(g, proto, n) ==
    LET here == g.player.current_location
        Named(monster) == HasId(monster, proto, n)
        target == FirstIndex({k \in DOMAIN g.locations[here].monsters : Named(g.locations[here].monsters[k])})
    IN  IF target # 0
        THEN Taken([g EXCEPT !.locations[here].monsters[target].hp = @ - g.player.attack_power,
                             !.message = Msg("attack", proto, g.player.attack_power)], TRUE)
        ELSE Taken([g EXCEPT !.message = Msg("monster_not_here", proto, n)], FALSE)

\* verb "ability"; target is the position chosen in the monster menu, 0 for Cancel.
combat_ability_no_cooldown(g, ability_id, target) ==
    LET here == g.player.current_location
        Named(ability) == ability.id = ability_id
        a == FirstIndex({k \in DOMAIN g.player.active_abilities : Named(g.player.active_abilities[k])})
        ability == g.player.active_abilities[a]
        total_damage == g.player.attack_power + skills[ability_id].damage_bonus
    IN  IF a = 0 THEN Taken([g EXCEPT !.message = Msg("no_ability", ability_id, 0)], FALSE)
        ELSE IF ability.cooldown > 0
             THEN Taken([g EXCEPT !.message = Msg("on_cooldown", ability_id, ability.cooldown)],
                        FALSE)
        ELSE IF target # 0
             THEN Taken([g EXCEPT !.locations[here].monsters[target].hp = @ - total_damage,
                                  !.message = Msg("ability", ability_id, total_damage)], TRUE)
        ELSE Taken([g EXCEPT !.message = Msg("ability_cancelled", ability_id, 0)], FALSE)

combat_ability(g, ability_id, target) ==
    LET here == g.player.current_location
        Named(ability) == ability.id = ability_id
        a == FirstIndex({k \in DOMAIN g.player.active_abilities : Named(g.player.active_abilities[k])})
        ability == g.player.active_abilities[a]
        total_damage == g.player.attack_power + skills[ability_id].damage_bonus
    IN  IF a = 0 THEN Taken([g EXCEPT !.message = Msg("no_ability", ability_id, 0)], FALSE)
        ELSE IF ability.cooldown > 0
             THEN Taken([g EXCEPT !.message = Msg("on_cooldown", ability_id, ability.cooldown)],
                        FALSE)
        ELSE IF target # 0
             THEN Taken([g EXCEPT !.locations[here].monsters[target].hp = @ - total_damage,
                                  !.player.active_abilities[a].cooldown = ability.max_cooldown,
                                  !.message = Msg("ability", ability_id, total_damage)], TRUE)
        ELSE Taken([g EXCEPT !.message = Msg("ability_cancelled", ability_id, 0)], FALSE)

\* verb "use" in combat; target as for an ability.
combat_use_cancel_takes_turn(g, item_id, target) ==
    LET here == g.player.current_location
        Named(item) == item.id = item_id
        i == FirstIndex({k \in DOMAIN g.player.inventory : Named(g.player.inventory[k])})
        proto == all_items[item_id]
        used == item_use_on_player(g.player, g.player.inventory[i])
    IN  IF i = 0 THEN Taken([g EXCEPT !.message = Msg("dont_have", item_id, 0)], FALSE)
        ELSE IF proto.item_type = "OffensiveItem"
             THEN IF target # 0
                  THEN Taken([g EXCEPT
                                !.locations[here].monsters[target] =
                                    OffensiveItem_use(@, proto.damage_amount),
                                !.player.inventory = RemoveAt(@, i),
                                !.message = Msg("damage", item_id, proto.damage_amount)], TRUE)
                  ELSE Taken([g EXCEPT !.message = Msg("item_cancelled", item_id, 0)], TRUE)
        ELSE IF proto.item_type \in {"Potion", "EffectPotion"}
             THEN Taken([g EXCEPT !.player = [used.target EXCEPT !.inventory = RemoveAt(@, i)],
                                  !.message = used.message], TRUE)
        ELSE Taken([g EXCEPT !.message = Msg("cant_use_in_combat", item_id, 0)], FALSE)

combat_use_keeps_item(g, item_id, target) ==
    LET here == g.player.current_location
        Named(item) == item.id = item_id
        i == FirstIndex({k \in DOMAIN g.player.inventory : Named(g.player.inventory[k])})
        proto == all_items[item_id]
        used == item_use_on_player(g.player, g.player.inventory[i])
    IN  IF i = 0 THEN Taken([g EXCEPT !.message = Msg("dont_have", item_id, 0)], FALSE)
        ELSE IF proto.item_type = "OffensiveItem"
             THEN IF target # 0
                  THEN Taken([g EXCEPT
                                !.locations[here].monsters[target] =
                                    OffensiveItem_use(@, proto.damage_amount),
                                !.message = Msg("damage", item_id, proto.damage_amount)], TRUE)
                  ELSE Taken([g EXCEPT !.message = Msg("item_cancelled", item_id, 0)], FALSE)
        ELSE IF proto.item_type \in {"Potion", "EffectPotion"}
             THEN Taken([g EXCEPT !.player = [used.target EXCEPT !.inventory = RemoveAt(@, i)],
                                  !.message = used.message], TRUE)
        ELSE Taken([g EXCEPT !.message = Msg("cant_use_in_combat", item_id, 0)], FALSE)

combat_use(g, item_id, target) ==
    LET here == g.player.current_location
        Named(item) == item.id = item_id
        i == FirstIndex({k \in DOMAIN g.player.inventory : Named(g.player.inventory[k])})
        proto == all_items[item_id]
        used == item_use_on_player(g.player, g.player.inventory[i])
    IN  IF i = 0 THEN Taken([g EXCEPT !.message = Msg("dont_have", item_id, 0)], FALSE)
        ELSE IF proto.item_type = "OffensiveItem"
             THEN IF target # 0
                  THEN Taken([g EXCEPT
                                !.locations[here].monsters[target] =
                                    OffensiveItem_use(@, proto.damage_amount),
                                !.player.inventory = RemoveAt(@, i),
                                !.message = Msg("damage", item_id, proto.damage_amount)], TRUE)
                  ELSE Taken([g EXCEPT !.message = Msg("item_cancelled", item_id, 0)], FALSE)
        ELSE IF proto.item_type \in {"Potion", "EffectPotion"}
             THEN Taken([g EXCEPT !.player = [used.target EXCEPT !.inventory = RemoveAt(@, i)],
                                  !.message = used.message], TRUE)
        ELSE Taken([g EXCEPT !.message = Msg("cant_use_in_combat", item_id, 0)], FALSE)

\* The attack_power of the monsters at the positions in hitters, summed.
RECURSIVE attack_sum(_, _)
attack_sum(monsters, hitters) ==
    IF monsters = <<>> THEN 0
    ELSE (IF Len(monsters) \in hitters
          THEN all_monsters[monsters[Len(monsters)].proto].attack_power ELSE 0)
         + attack_sum(SubSeq(monsters, 1, Len(monsters) - 1), hitters)

\* verb "retreat"; hitters are the monsters whose random.random() < 0.5.
combat_retreat_dead_escapes(g, hitters) ==
    LET here == g.player.current_location
        hurt == [g.player EXCEPT !.hp = @ - attack_sum(g.locations[here].monsters, hitters)]
    IN  Taken([g EXCEPT !.player = retreat(hurt), !.game_mode = "explore",
                        !.message = Msg("escaped", None, 0)], FALSE)

combat_retreat(g, hitters) ==
    LET here == g.player.current_location
        hurt == [g.player EXCEPT !.hp = @ - attack_sum(g.locations[here].monsters, hitters)]
    IN  IF is_alive(hurt)
        THEN Taken([g EXCEPT !.player = retreat(hurt), !.game_mode = "explore",
                             !.message = Msg("escaped", None, 0)], FALSE)
        ELSE Taken([g EXCEPT !.player = hurt, !.game_mode = "explore",
                             !.message = Msg("flee_failed", None, 0)], FALSE)

\* The combat branch with the `go` of the explore branch.
combat_command_with_go(g, verb, arg, n, target, hitters) ==
    CASE verb = "attack" -> combat_attack(g, arg, n)
      [] verb = "ability" -> combat_ability(g, arg, target)
      [] verb = "use" -> combat_use(g, arg, target)
      [] verb = "retreat" -> combat_retreat(g, hitters)
      [] verb = "go" -> Taken(explore_go(g, arg), FALSE)
      [] OTHER -> Taken([g EXCEPT !.message = Msg("", None, 0)], FALSE)

\* main, the verbs of the branch `elif game_mode == "combat"`.
combat_command(g, verb, arg, n, target, hitters) ==
    CASE verb = "attack" -> combat_attack(g, arg, n)
      [] verb = "ability" -> combat_ability(g, arg, target)
      [] verb = "use" -> combat_use(g, arg, target)
      [] verb = "retreat" -> combat_retreat(g, hitters)
      [] OTHER -> Taken([g EXCEPT !.message = Msg("", None, 0)], FALSE)

\* ---------------------------------------------------------------- main: end of a combat turn

\* m.id.startswith(monster_to_spawn_id): the id is "{proto}:{n}", and no
\* prototype id of this world is a prefix of another one.
id_startswith(monster, monster_to_spawn_id) == monster.proto = monster_to_spawn_id

\* The mode switch after the add_xp of a defeated monster.
mode_after_xp_on_every_level_up(g, leveled_up, class_choice_pending) ==
    IF class_choice_pending \/ leveled_up
    THEN [g EXCEPT !.previous_game_mode = g.game_mode, !.game_mode = "class_choice"]
    ELSE g

mode_after_xp(g, leveled_up, class_choice_pending) ==
    IF class_choice_pending
    THEN [g EXCEPT !.previous_game_mode = g.game_mode, !.game_mode = "class_choice"]
    ELSE IF leveled_up
         THEN [g EXCEPT !.previous_game_mode = g.game_mode, !.game_mode = "level_up"]
         ELSE g

\* The quest a defeated monster completes.
complete_quest_of_any_monster(p, quest_id) ==
    [p EXCEPT !.quests = [q \in DOMAIN p.quests |-> "completed"]]

complete_quest(p, quest_id) ==
    IF quest_id # None /\ quest_id \in DOMAIN p.quests /\ p.quests[quest_id] # "completed"
    THEN [p EXCEPT !.quests[quest_id] = "completed"]
    ELSE p

\* The monsters of the location after the spawns_on_defeat entry of a defeated
\* monster has been applied.
spawn_on_defeat(monsters, spawns_on_defeat, monster_proto_id) ==
    IF monster_proto_id \in DOMAIN spawns_on_defeat
       /\ spawns_on_defeat[monster_proto_id] \in MonsterProtoIds
    THEN LET monster_to_spawn_id == spawns_on_defeat[monster_proto_id]
             instance_count ==
                Cardinality({i \in DOMAIN monsters : id_startswith(monsters[i], monster_to_spawn_id)})
         IN  monsters \o <<MonsterObject(monster_to_spawn_id, instance_count)>>
    ELSE monsters

\* The body of `for m in defeated_monsters`, for one monster.
defeat(g, m) ==
    LET here == g.player.current_location
        proto == all_monsters[m.proto]
        gained == add_xp(g.player, proto.xp_reward)
        switched == mode_after_xp([g EXCEPT !.player = gained.player],
                                  gained.leveled_up, gained.class_choice_pending)
    IN  [switched EXCEPT
            !.player = complete_quest(@, proto.completes_quest_id),
            !.locations[here].items = @ \o ItemObjects(proto.drop_ids),
            !.locations[here].monsters =
                spawn_on_defeat(@, all_locations[here].spawns_on_defeat, m.proto)]

RECURSIVE defeat_all(_, _)
defeat_all(g, defeated_monsters) ==
    IF defeated_monsters = <<>> THEN g
    ELSE defeat_all(defeat(g, Head(defeated_monsters)), Tail(defeated_monsters))

\* Lines 327-362: the defeated monsters are processed and the dead are pruned.
process_defeated_no_prune(g) ==
    LET here == g.player.current_location
        defeated_monsters == SelectSeq(g.locations[here].monsters, LAMBDA m : ~is_alive(m))
    IN  defeat_all(g, defeated_monsters)

process_defeated(g) ==
    LET here == g.player.current_location
        defeated_monsters == SelectSeq(g.locations[here].monsters, LAMBDA m : ~is_alive(m))
        after == defeat_all(g, defeated_monsters)
    IN  IF defeated_monsters = <<>> THEN g
        ELSE [after EXCEPT !.locations[here].monsters = SelectSeq(@, is_alive)]

\* Lines 364-372: victory, or the attack of every monster left.
enemy_turn_no_victory(g) ==
    LET monsters == g.locations[g.player.current_location].monsters
    IN  IF g.game_mode = "combat"
        THEN [g EXCEPT !.player.hp = @ - attack_sum(monsters, DOMAIN monsters)]
        ELSE g

enemy_turn(g) ==
    LET monsters == g.locations[g.player.current_location].monsters
    IN  IF monsters = <<>> THEN [g EXCEPT !.game_mode = "explore"]
        ELSE IF g.game_mode = "combat"
             THEN [g EXCEPT !.player.hp = @ - attack_sum(monsters, DOMAIN monsters)]
             ELSE g

fire_damage == 3

\* Lines 375-379: the heat of a Volcanic location.
burns_despite_resistance(p) ==
    /\ all_locations[p.current_location].location_type = "Volcanic"
    /\ ~\E i \in DOMAIN p.inventory : all_items[p.inventory[i].id].name = "Fireproof Armor"

burns(p) ==
    /\ all_locations[p.current_location].location_type = "Volcanic"
    /\ ~\E i \in DOMAIN p.inventory : all_items[p.inventory[i].id].name = "Fireproof Armor"
    /\ "fire_resistance" \notin DOMAIN p.status_effects

\* Lines 381-388: every status effect loses a turn and goes at 0.
decay_status_effects(status_effects) ==
    [e \in {x \in DOMAIN status_effects : status_effects[x] - 1 > 0} |-> status_effects[e] - 1]

\* Lines 391-393: every cooldown loses a turn, not below 0.
decay_cooldowns_below_zero(active_abilities) ==
    [i \in DOMAIN active_abilities |-> [active_abilities[i] EXCEPT !.cooldown = @ - 1]]

decay_cooldowns(active_abilities) ==
    [i \in DOMAIN active_abilities |->
        IF active_abilities[i].cooldown > 0
        THEN [active_abilities[i] EXCEPT !.cooldown = @ - 1]
        ELSE active_abilities[i]]

\* Lines 374-393, under `player_turn_taken and player.is_alive()`.
end_of_turn_no_alive_check(p) ==
    LET burnt == IF burns(p) THEN [p EXCEPT !.hp = @ - fire_damage] ELSE p
    IN  [burnt EXCEPT !.status_effects = decay_status_effects(@),
                      !.active_abilities = decay_cooldowns(@)]

end_of_turn(p) ==
    LET burnt == IF burns(p) THEN [p EXCEPT !.hp = @ - fire_damage] ELSE p
    IN  IF is_alive(p)
        THEN [burnt EXCEPT !.status_effects = decay_status_effects(@),
                           !.active_abilities = decay_cooldowns(@)]
        ELSE p

\* main, the branch `elif game_mode == "combat"` as a whole.
combat_turn(g, verb, arg, n, target, hitters) ==
    LET done == combat_command(g, verb, arg, n, target, hitters)
        fought == enemy_turn(process_defeated(done.g))
    IN  IF done.player_turn_taken
        THEN [fought EXCEPT !.player = end_of_turn(@)]
        ELSE done.g

\* ---------------------------------------------------------------- main: the game loop
\* One run of main(): a new adventure or a saved one is continued, then one
\* action per iteration of `while player.is_alive()`. The menus are game data,
\* so any command may be on offer in any mode.

\* Commands are followed while the player is below this level (the fire imp
\* respawns for ever, so XP is unbounded).
MaxGameLevel == 11

\* The highest instance number an `attack` command names.
MaxInstance == 1

Directions == {"north", "south", "east"}

ActiveSkillIds == {s \in SkillIds : skills[s].skill_type = "active"}

Command(verb, arg, n) == [verb |-> verb, arg |-> arg, n |-> n]

Commands ==
    {Command(verb, None, 0) : verb \in {"look", "map", "skills", "inventory", "retreat", "quit"}}
    \cup {Command("go", direction, 0) : direction \in Directions}
    \cup {Command(verb, item_id, 0) : verb \in {"get", "use"}, item_id \in ItemIds}
    \cup {Command("talk", npc_id, 0) : npc_id \in NpcIds}
    \cup {Command("attack", proto, n) : proto \in MonsterProtoIds, n \in 0 .. MaxInstance}
    \cup {Command("ability", skill_id, 0) : skill_id \in ActiveSkillIds}

\* Saved adventures a run may continue: one saved at level 10 before any class
\* was chosen, every skill point spent on upgrades.
SaveFiles == { save_game(with_upgrades(at_level(NewPlayer, 10), 9)) }

\* main, lines 53-87: the player of this run, the migration of a save that has
\* level >= 10 and no class, and the first mode.
Launch(save, continue, chosen_class) ==
    LET loaded == IF save # NoSave /\ continue THEN load_player_from_save(save) ELSE NewPlayer
        migrate == loaded.level >= 10 /\ loaded.class_id = None
    IN  /\ player = (IF migrate THEN handle_class_choice(loaded, chosen_class) ELSE loaded)
        /\ save_data = (IF migrate THEN save_game(player) ELSE save)
        /\ message = (IF migrate THEN Msg("chosen", chosen_class, 0)
                      ELSE Msg("describe", loaded.current_location, 0))
        /\ call = Call("main", IF save # NoSave /\ continue THEN "continue" ELSE "new", 0, migrate)
        /\ locations = NewLocations
        /\ game_mode = "explore"
        /\ previous_game_mode = "explore"
        /\ available_skills = {}
        /\ running = TRUE

Init ==
    \E save \in SaveFiles \cup {NoSave}, continue \in BOOLEAN, chosen_class \in ClassIds :
        Launch(save, continue, chosen_class)

\* while player.is_alive(), and no `break` yet.
InLoop == running /\ is_alive(player)

\* Lines 90-93
ClassChoiceStep(chosen_class) ==
    /\ InLoop
    /\ game_mode = "class_choice"
    /\ player' = handle_class_choice(player, chosen_class)
    /\ game_mode' = "explore"
    /\ message' = Msg("chosen", chosen_class, 0)
    /\ call' = Call("class_choice", chosen_class, 0, FALSE)
    /\ UNCHANGED <<locations, previous_game_mode, available_skills, running, save_data>>

\* Lines 95-99; chosen_upgrade is None on Cancel.
LevelUpStep(chosen_upgrade) ==
    LET r == present_levelup_choices(player, chosen_upgrade)
    IN  /\ InLoop
        /\ game_mode = "level_up"
        /\ IF player.skill_points > 0
           THEN player' = r.player /\ message' = r.message
           ELSE UNCHANGED <<player, message>>
        /\ game_mode' = previous_game_mode
        /\ call' = Call("level_up", chosen_upgrade, 0, FALSE)
        /\ UNCHANGED <<locations, previous_game_mode, available_skills, running, save_data>>

\* Lines 101-140; choice is "exit", the id of the skill whose number was
\* entered, or anything else.
SkillsMenuStep(choice) ==
    LET offered == get_available_skills(player)
        r == unlock_skill(player, choice, FALSE)
    IN  /\ InLoop
        /\ game_mode = "skills_menu"
        /\ IF choice = "exit"
           THEN /\ game_mode' = "explore"
                /\ message' = Msg("return", None, 0)
                /\ UNCHANGED player
           ELSE /\ game_mode' = "skills_menu"
                /\ IF choice \in offered
                   THEN player' = recalculate_stats(r.player) /\ message' = r.message
                   ELSE UNCHANGED player /\ message' = Msg("invalid_skill", None, 0)
        /\ call' = Call("skills_menu", choice, 0, FALSE)
        /\ UNCHANGED <<locations, previous_game_mode, available_skills, running, save_data>>

\* Lines 142-145: explore turns into combat where monsters are.
mode_at_prompt ==
    IF game_mode = "explore" /\ locations[player.current_location].monsters # <<>>
    THEN "combat" ELSE game_mode

\* Lines 150-159: the number entered is not the number of an action.
InvalidChoice ==
    /\ InLoop
    /\ game_mode \in {"explore", "combat"}
    /\ game_mode' = mode_at_prompt
    /\ message' = Msg("invalid_choice", None, 0)
    /\ call' = Call("invalid_choice", None, 0, FALSE)
    /\ UNCHANGED <<player, locations, previous_game_mode, available_skills, running, save_data>>

\* Lines 166-169
Quit ==
    /\ InLoop
    /\ game_mode \in {"explore", "combat"}
    /\ game_mode' = mode_at_prompt
    /\ save_data' = save_game(player)
    /\ running' = FALSE
    /\ message' = Msg("", None, 0)
    /\ call' = Call("quit", None, 0, FALSE)
    /\ UNCHANGED <<player, locations, previous_game_mode, available_skills>>

\* The hit rolls of a retreat as a number: bit k - 1 is set when the k-th
\* monster of the location hits.
RECURSIVE HitMask(_)
HitMask(hitters) ==
    IF hitters = {} THEN 0
    ELSE LET k == CHOOSE x \in hitters : TRUE
         IN  2 ^ (k - 1) + HitMask(hitters \ {k})

\* Lines 171-393: one command in explore or combat mode. target is the monster
\* picked in a target menu (0 for Cancel), hitters the monsters that hit a
\* retreating player. The call records the instance number of an attack, the
\* hit rolls of a retreat and the target of an ability or item.
PlayerCommand(command, target, hitters) ==
    LET g == Game(player, locations, mode_at_prompt, previous_game_mode, Msg("", None, 0))
        h == IF mode_at_prompt = "explore"
             THEN explore_command(g, command.verb, command.arg)
             ELSE combat_turn(g, command.verb, command.arg, command.n, target, hitters)
    IN  /\ InLoop
        /\ game_mode \in {"explore", "combat"}
        /\ command.verb # "quit"
        /\ player.level < MaxGameLevel
        /\ player' = h.player
        /\ locations' = h.locations
        /\ game_mode' = h.game_mode
        /\ previous_game_mode' = h.previous_game_mode
        /\ message' = h.message
        /\ call' = Call(command.verb, command.arg,
                        CASE command.verb = "attack" -> command.n
                          [] command.verb = "retreat" -> HitMask(hitters)
                          [] OTHER -> target,
                        FALSE)
        /\ UNCHANGED <<available_skills, running, save_data>>

\* select_from_menu is reached by an ability that is known and off cooldown
\* and by an OffensiveItem of the inventory.
menu_shown(command) ==
    \/ /\ command.verb = "ability"
       /\ \E k \in DOMAIN player.active_abilities :
              /\ player.active_abilities[k].id = command.arg
              /\ player.active_abilities[k].cooldown = 0
    \/ /\ command.verb = "use"
       /\ \E k \in DOMAIN player.inventory : player.inventory[k].id = command.arg
       /\ all_items[command.arg].item_type = "OffensiveItem"

\* The inputs a command can draw: a target only where a target menu is shown,
\* hitters only on a retreat.
Targets(command) ==
    IF mode_at_prompt = "combat" /\ menu_shown(command)
    THEN 0 .. Len(locations[player.current_location].monsters)
    ELSE {0}

Hitters(command) ==
    IF mode_at_prompt = "combat" /\ command.verb = "retreat"
    THEN SUBSET DOMAIN locations[player.current_location].monsters
    ELSE {{}}

Next ==
    \/ \E chosen_class \in ClassIds : ClassChoiceStep(chosen_class)
    \/ \E chosen_upgrade \in LevelUpChoices \cup {None} : LevelUpStep(chosen_upgrade)
    \/ \E choice \in SkillIds \cup {"exit", "invalid"} : SkillsMenuStep(choice)
    \/ InvalidChoice
    \/ Quit
    \/ \E command \in Commands :
          \E target \in Targets(command), hitters \in Hitters(command) :
              PlayerCommand(command, target, hitters)

Spec == Init /\ [][Next]_vars

\* C5: class_id is set exactly once. In every step of a run of the game loop
\* (a command, a level-up step, a class-choice step, a skills-menu step, with
\* the recalculations they make), a class_id that holds a class is left as it is.
C5_ClassIdPermanent ==
    [][player.class_id # None => player'.class_id = player.class_id]_vars

\* A new adventure in which the class was chosen in the loop at level 10 and the
\* player then fought on, reached level 11 and took the level-up upgrade.
C5_Witness ==
    /\ save_data = NoSave
    /\ player.class_id # None
    /\ player.level = 11
    /\ call.op = "level_up"
    /\ message.kind = "upgrade"

\* ---------------------------------------------------------------- class skill pools

\* C11: class skill pools are exclusive. For a player with no class chosen,
\* get_available_skills returns only skills of the general pool, none that is
\* in some class's skill_pool.
C11_NoClassOnlyGeneralSkills ==
    (call.op = "get_available_skills" /\ player.class_id = None) =>
        \A sid \in available_skills : ~InSomePool(sid)

\* ---------------------------------------------------------------- save and load round trip

SavedFields ==
    {"base_max_hp", "base_attack_power", "base_critical_chance", "level", "xp",
     "xp_to_next_level", "skill_points", "unlocked_skills", "class_id", "quests",
     "discovered_locations"}

\* C12: save then load is a round trip. In every state of a run of the game
\* loop, load_player_from_save applied to the snapshot save_game writes gives a
\* player with the same base stats, level, xp, xp_to_next_level, skill_points,
\* unlocked_skills, class_id, quests and discovered_locations; live stats that
\* are base + class mod + passive skill mods of those values (the saved
\* player's own live stats when they were up to date); and hp = min(saved hp,
\* max_hp).
C12_SaveLoadRoundTrip ==
    LET saved == save_game(player)
        loaded == load_player_from_save(saved)
        fresh == recalculate_stats(player)
    IN  /\ \A f \in SavedFields : loaded[f] = player[f]
        /\ loaded.max_hp = ExpectedStat(player, player.base_max_hp, "max_hp")
        /\ loaded.attack_power =
               ExpectedStat(player, player.base_attack_power, "attack_power")
        /\ loaded.critical_chance =
               ExpectedStat(player, player.base_critical_chance, "critical_chance")
        /\ (player.max_hp = fresh.max_hp => loaded.max_hp = player.max_hp)
        /\ loaded.hp = Min(saved.hp, loaded.max_hp)

\* A game saved on quit by a player with a class, skills, a quest and a
\* critical-chance upgrade, hurt since the last level-up.
C12_Witness ==
    /\ ~running
    /\ save_data = save_game(player)
    /\ player.class_id # None
    /\ player.base_critical_chance > 0
    /\ player.unlocked_skills # <<>>
    /\ DOMAIN player.quests # {}
    /\ player.hp < player.max_hp

\* ---------------------------------------------------------------- the game loop, continued in a fight
\* Runs of main() that continue an adventure saved in a fight (by `quit`, which
\* every mode's menu offers). In the rat cellar the rat takes two blows of a
\* new player, its defeat leaves a potion and brings a bat, and the XP of
\* either one can be the XP that completes a level; on the ember peak both
\* monsters kill a new player in one round.

\* The player of such a save, before save_game.
saved_in_fight(p, here, xp, item_ids) ==
    [p EXCEPT !.xp = xp, !.current_location = here,
              !.previous_location = "oakhaven",
              !.inventory = ItemObjects(item_ids),
              !.quests = ("quest_cleared_swamp" :> "active"),
              !.discovered_locations = {"oakhaven", here}]

FightSaves ==
    {save_game(saved_in_fight(NewPlayer, "rat_cellar", 0, <<"fire_bomb", "lantern_1">>)),
     save_game(saved_in_fight(NewPlayer, "rat_cellar", 50, <<"fire_bomb", "lantern_1">>)),
     save_game(saved_in_fight(NewPlayer, "ember_peak", 0, <<"fire_tonic">>)),
     save_game(saved_in_fight(present_levelup_choices(at_level(NewPlayer, 2), "crit").player,
                              "rat_cellar", 0, <<"healing_potion">>)),
     save_game([saved_in_fight(
                   handle_class_choice(with_upgrades(at_level(NewPlayer, 10), 9), "mage"),
                   "ember_peak", 0, <<>>) EXCEPT !.hp = 33]),
     save_game([saved_in_fight(
                   handle_class_choice(with_upgrades(at_level(NewPlayer, 10), 9), "knight"),
                   "ember_peak", 0, <<"fire_tonic">>) EXCEPT !.hp = 95]),
     save_game([saved_in_fight(
                   handle_class_choice(with_upgrades(at_level(NewPlayer, 10), 9), "knight"),
                   "ember_peak", 0, <<"fireproof_armor">>) EXCEPT !.hp = 95]),
     save_game(saved_in_fight(with_upgrades(at_level(NewPlayer, 9), 8), "rat_cellar", 2453, <<>>)),
     save_game(saved_in_fight(with_upgrades(at_level(NewPlayer, 9), 8), "bat_roost", 0, <<>>)),
     save_game([saved_in_fight(
                   handle_class_choice(with_upgrades(at_level(NewPlayer, 10), 9), "mage"),
                   "rat_cellar", 0, <<>>) EXCEPT !.quests = NewPlayer.quests])}

InitFight ==
    \E save \in FightSaves, chosen_class \in ClassIds : Launch(save, TRUE, chosen_class)

SpecFight == InitFight /\ [][Next]_vars

\* The command recorded in c, given at the combat prompt of the current state,
\* fails validation.
FailsValidation(c) ==
    LET monsters == locations[player.current_location].monsters
        abilities == player.active_abilities
        held == \E k \in DOMAIN player.inventory : player.inventory[k].id = c.id
    IN  \/ /\ c.op = "attack"
           /\ ~\E k \in DOMAIN monsters : HasId(monsters[k], c.id, c.value)
        \/ /\ c.op = "ability"
           /\ \/ ~\E k \in DOMAIN abilities : abilities[k].id = c.id
              \/ \E k \in DOMAIN abilities : abilities[k].id = c.id /\ abilities[k].cooldown > 0
              \/ c.value = 0
        \/ /\ c.op = "use"
           /\ \/ ~held
              \/ all_items[c.id].item_type \notin {"Potion", "EffectPotion", "OffensiveItem"}
              \/ all_items[c.id].item_type = "OffensiveItem" /\ c.value = 0

\* C13: a combat command that fails validation (attack on a monster id not
\* present, unknown ability, ability on cooldown, item not in the inventory,
\* item of a type that cannot be used in combat, cancelled target selection)
\* consumes no turn and changes no state: the player (hp, inventory, status
\* effects, cooldowns, xp, location) and every monster are as before, no
\* monster attacks, and the mode stays combat.
C13_FailedCombatCommandNoOp ==
    [][ (mode_at_prompt = "combat" /\ FailsValidation(call')) =>
            /\ player' = player
            /\ locations' = locations
            /\ game_mode' = "combat"
      ]_vars

\* In the middle of the fight with the rat, the fire bomb is chosen and the
\* target menu cancelled.
C13_Witness ==
    /\ call.op = "use" /\ call.id = "fire_bomb" /\ call.value = 0
    /\ message.kind = "item_cancelled"
    /\ game_mode = "combat"
    /\ \E k \in DOMAIN player.inventory : player.inventory[k].id = "fire_bomb"
    /\ \E k \in DOMAIN locations["rat_cellar"].monsters :
           /\ locations["rat_cellar"].monsters[k].proto = "rat"
           /\ locations["rat_cellar"].monsters[k].hp = 3
    /\ player.hp = 18

\* ---------------------------------------------------------------- retreat, in both prototypes

\* rpg.py, verb "retreat": as in main.py, but player_turn_taken is set.
rpg_combat_retreat(g, hitters) == Taken(combat_retreat(g, hitters).g, TRUE)

\* rpg.py, a retreat with the end-of-turn code that follows it: the victory
\* test and the post-turn effects look at the location the player is in now.
rpg_retreat_turn(g, hitters) ==
    LET done == rpg_combat_retreat(g, hitters)
        fought == enemy_turn(process_defeated(done.g))
    IN  IF done.player_turn_taken
        THEN [fought EXCEPT !.player = end_of_turn(@)]
        ELSE done.g

\* rpg.py, the drops of a defeated monster: an item with a unique id is left
\* out when the player holds one or one lies on the ground here.
unique_item_ids == {"lantern_1", "amulet_of_seeing_1"}

RECURSIVE rpg_dropped_despite_inventory(_, _, _)
rpg_dropped_despite_inventory(items, inventory, drop_ids) ==
    IF drop_ids = <<>> THEN items
    ELSE LET item_id == Head(drop_ids)
             is_unique == item_id \in unique_item_ids
             on_ground_here == \E k \in DOMAIN items : items[k].id = item_id
         IN  rpg_dropped_despite_inventory(
                 IF is_unique /\ on_ground_here
                 THEN items ELSE Append(items, ItemObject(item_id)),
                 inventory, Tail(drop_ids))

RECURSIVE rpg_dropped(_, _, _)
rpg_dropped(items, inventory, drop_ids) ==
    IF drop_ids = <<>> THEN items
    ELSE LET item_id == Head(drop_ids)
             is_unique == item_id \in unique_item_ids
             has_in_inventory == \E k \in DOMAIN inventory : inventory[k].id = item_id
             on_ground_here == \E k \in DOMAIN items : items[k].id = item_id
         IN  rpg_dropped(IF is_unique /\ (has_in_inventory \/ on_ground_here)
                         THEN items ELSE Append(items, ItemObject(item_id)),
                         inventory, Tail(drop_ids))

\* rpg.py, the body of `for m in defeated_monsters`: that of main.py with the
\* drops of rpg.py.
rpg_defeat(g, m) ==
    LET here == g.player.current_location
    IN  [defeat(g, m) EXCEPT
            !.locations[here].items =
                rpg_dropped(g.locations[here].items, g.player.inventory,
                            all_monsters[m.proto].drop_ids)]

RECURSIVE rpg_defeat_all(_, _)
rpg_defeat_all(g, defeated_monsters) ==
    IF defeated_monsters = <<>> THEN g
    ELSE rpg_defeat_all(rpg_defeat(g, Head(defeated_monsters)), Tail(defeated_monsters))

rpg_process_defeated(g) ==
    LET here == g.player.current_location
        defeated_monsters == SelectSeq(g.locations[here].monsters, LAMBDA m : ~is_alive(m))
        after == rpg_defeat_all(g, defeated_monsters)
    IN  IF defeated_monsters = <<>> THEN g
        ELSE [after EXCEPT !.locations[here].monsters = SelectSeq(@, is_alive)]

\* rpg.py, an attack with the end-of-turn code that follows it.
rpg_attack_turn(g, proto, n) ==
    LET done == combat_attack(g, proto, n)
        fought == enemy_turn(rpg_process_defeated(done.g))
    IN  IF done.player_turn_taken
        THEN [fought EXCEPT !.player = end_of_turn(@)]
        ELSE done.g

\* A knight of level 10 in a fight: come from the town or loaded on the spot,
\* more or less hurt, with or without a fire tonic at work, with or without
\* the lantern.
RetreatHps == {1, 31, 61, 95}

RetreatPlayers ==
    LET knight == handle_class_choice(with_upgrades(at_level(NewPlayer, 10), 9), "knight")
    IN  {[knight EXCEPT !.hp = hp, !.current_location = here, !.previous_location = before,
                        !.discovered_locations = {"oakhaven", here},
                        !.status_effects = effects,
                        !.inventory = ItemObjects(item_ids)] :
            hp \in RetreatHps, here \in {"ember_peak", "rat_cellar"},
            before \in {"oakhaven", "ember_peak"},
            effects \in {[e \in {} |-> 0], ("fire_resistance" :> 2)},
            item_ids \in {<<>>, <<"lantern_1">>}}

InitRetreat ==
    /\ player \in RetreatPlayers
    /\ locations = NewLocations
    /\ game_mode = "combat"
    /\ previous_game_mode = "explore"
    /\ available_skills = {}
    /\ running = TRUE
    /\ save_data = NoSave
    /\ message = Msg("", None, 0)
    /\ call = NoCall

MainRetreat(hitters) == PlayerCommand(Command("retreat", None, 0), 0, hitters)

RpgRetreat(hitters) ==
    LET g == Game(player, locations, mode_at_prompt, previous_game_mode, Msg("", None, 0))
        h == rpg_retreat_turn(g, hitters)
    IN  /\ InLoop
        /\ mode_at_prompt = "combat"
        /\ player' = h.player
        /\ locations' = h.locations
        /\ game_mode' = h.game_mode
        /\ previous_game_mode' = h.previous_game_mode
        /\ message' = h.message
        /\ call' = Call("rpg.retreat", None, HitMask(hitters), FALSE)
        /\ UNCHANGED <<available_skills, running, save_data>>

RpgAttack(proto, n) ==
    LET g == Game(player, locations, mode_at_prompt, previous_game_mode, Msg("", None, 0))
        h == rpg_attack_turn(g, proto, n)
    IN  /\ InLoop
        /\ mode_at_prompt = "combat"
        /\ player' = h.player
        /\ locations' = h.locations
        /\ game_mode' = h.game_mode
        /\ previous_game_mode' = h.previous_game_mode
        /\ message' = h.message
        /\ call' = Call("rpg.attack", proto, n, FALSE)
        /\ UNCHANGED <<available_skills, running, save_data>>

NextRetreat ==
    \/ \E hitters \in Hitters(Command("retreat", None, 0)) : MainRetreat(hitters)
    \/ \E hitters \in Hitters(Command("retreat", None, 0)) : RpgRetreat(hitters)
    \/ \E proto \in MonsterProtoIds, n \in 0 .. MaxInstance : RpgAttack(proto, n)

SpecRetreat == InitRetreat /\ [][NextRetreat]_vars

\* The attack_power of the monsters whose bit is set in the recorded hit rolls.
RECURSIVE RetreatDamage(_, _, _)
RetreatDamage(monsters, mask, k) ==
    IF k > Len(monsters) THEN 0
    ELSE (IF (mask \div 2 ^ (k - 1)) % 2 = 1
          THEN all_monsters[monsters[k].proto].attack_power ELSE 0)
         + RetreatDamage(monsters, mask, k + 1)

\* C14: retreat damage. For every set of monsters at the location and every
\* hit/miss decision per monster, the player's hp once the retreat command is
\* fully resolved is the hp before minus the attack_power of exactly the
\* monsters that hit, in main.py and in rpg.py; nothing else changes hp.
C14_RetreatDamage ==
    [][ (mode_at_prompt = "combat" /\ call'.op \in {"retreat", "rpg.retreat"}) =>
            player'.hp = player.hp
                - RetreatDamage(locations[player.current_location].monsters, call'.value, 1)
      ]_vars

\* ---------------------------------------------------------------- defeats

\* The XP a player has been awarded in all: the thresholds of the levels
\* passed plus the xp counted towards the next one.
RECURSIVE XpTotal(_, _, _)
XpTotal(level, threshold, xp) ==
    IF level <= 1 THEN xp
    ELSE XpTotal(level - 1, (threshold * 3) \div 2, xp + threshold)

XpAwarded(p) == XpTotal(p.level, 100, p.xp)

\* The damage the command recorded in c deals to the monster at position k.
DamageTo(c, k) ==
    LET monsters == locations[player.current_location].monsters
        first == CHOOSE j \in DOMAIN monsters :
                    /\ HasId(monsters[j], c.id, c.value)
                    /\ \A i \in 1 .. j - 1 : ~HasId(monsters[i], c.id, c.value)
    IN  CASE c.op = "attack" ->
                IF HasId(monsters[k], c.id, c.value) /\ k = first
                THEN player.attack_power ELSE 0
          [] c.op = "ability" ->
                IF k = c.value THEN player.attack_power + skills[c.id].damage_bonus ELSE 0
          [] c.op = "use" ->
                IF k = c.value THEN all_items[c.id].damage_amount ELSE 0
          [] OTHER -> 0

\* A step of the game loop processes the defeat of exactly the monsters its
\* command brings to hp <= 0.
DefeatProcessedInItsTurn ==
    LET here == player.current_location
        monsters == locations[here].monsters
        after == locations'[here].monsters
        fight == mode_at_prompt = "combat" /\ call'.op \in {"attack", "ability", "use"}
        killed == IF fight
                  THEN {k \in DOMAIN monsters : monsters[k].hp <= DamageTo(call', k)}
                  ELSE {}
        spawning == {k \in killed :
                        monsters[k].proto \in DOMAIN all_locations[here].spawns_on_defeat}
    IN  /\ Cardinality(killed) <= 1
        /\ \A l \in LocationIds \ {here} : locations'[l] = locations[l]
        /\ \A k \in DOMAIN monsters \ killed :
               \E j \in DOMAIN after :
                   /\ HasId(after[j], monsters[k].proto, monsters[k].n)
                   /\ after[j].hp = monsters[k].hp - (IF fight THEN DamageTo(call', k) ELSE 0)
        /\ Len(after) = Len(monsters) - Cardinality(killed) + Cardinality(spawning)
        /\ \A k \in spawning :
               /\ after[Len(after)].proto = all_locations[here].spawns_on_defeat[monsters[k].proto]
               /\ after[Len(after)].hp = all_monsters[after[Len(after)].proto].hp
        /\ IF killed = {}
           THEN /\ XpAwarded(player') = XpAwarded(player)
                /\ fight => locations'[here].items = locations[here].items
                /\ \A q \in DOMAIN player.quests :
                       player'.quests[q] = "completed" => player.quests[q] = "completed"
           ELSE \A k \in killed :
                   LET proto == all_monsters[monsters[k].proto]
                   IN  /\ XpAwarded(player') = XpAwarded(player) + proto.xp_reward
                       /\ locations'[here].items =
                              locations[here].items \o ItemObjects(proto.drop_ids)
                       /\ \A q \in DOMAIN player.quests :
                              player'.quests[q] =
                                 IF q = proto.completes_quest_id THEN "completed"
                                 ELSE player.quests[q]

DeathResolution(post_turn) ==
    LET c == call'
        monsters == locations[player.current_location].monsters
        left == locations'[player.current_location].monsters
        item == all_items[c.id]
        hp_after_command ==
            IF c.op = "use" /\ item.item_type = "Potion"
            THEN Min(player.hp + item.heal_amount, player.max_hp)
            ELSE player.hp
        hp_after_blows ==
            CASE mode_at_prompt = "explore" -> player.hp - item.damage_amount
              [] c.op = "retreat" -> player.hp - RetreatDamage(monsters, c.value, 1)
              [] OTHER -> hp_after_command - RetreatDamage(left, 2 ^ Len(left) - 1, 1)
        effects ==
            IF c.op = "use" /\ item.item_type = "EffectPotion"
            THEN (item.effect :> item.duration) @@ player.status_effects
            ELSE player.status_effects
        cooldown(k) ==
            IF c.op = "ability" /\ player.active_abilities[k].id = c.id
            THEN player.active_abilities[k].max_cooldown
            ELSE player.active_abilities[k].cooldown
    IN  /\ mode_at_prompt = "explore" =>
              c.op = "use" /\ item.item_type = "OffensiveItem"
        /\ mode_at_prompt \in {"explore", "combat"}
        /\ c.op \in {"attack", "ability", "use", "retreat"}
        /\ DOMAIN player'.active_abilities = DOMAIN player.active_abilities
        /\ IF post_turn
           THEN /\ mode_at_prompt = "combat" /\ c.op # "retreat"
                /\ hp_after_blows > 0
                /\ all_locations[player.current_location].location_type = "Volcanic"
                /\ "fire_resistance" \notin DOMAIN effects
                /\ player'.hp = hp_after_blows - fire_damage
                /\ DOMAIN player'.status_effects = {e \in DOMAIN effects : effects[e] > 1}
                /\ \A e \in DOMAIN player'.status_effects :
                       player'.status_effects[e] = effects[e] - 1
                /\ \A k \in DOMAIN player.active_abilities :
                       player'.active_abilities[k].cooldown =
                          IF cooldown(k) > 0 THEN cooldown(k) - 1 ELSE 0
           ELSE /\ player'.hp = hp_after_blows
                /\ player'.status_effects = effects
                /\ \A k \in DOMAIN player.active_abilities :
                       player'.active_abilities[k].cooldown = cooldown(k)

\* C16 as stated: player death is terminal. Once a command's resolution leaves
\* the player with hp <= 0, no further command or mode step is processed (every
\* step of the loop starts with a living player), and within that resolution
\* the environmental damage, the status-effect decay and the cooldown decay are
\* skipped.
C16_DeathTerminal ==
    /\ [][is_alive(player)]_vars
    /\ [][~is_alive(player') => DeathResolution(FALSE)]_vars

\* C16, amended: death is terminal, and the post-turn block is skipped when
\* the command or the monsters' blows leave the player with hp <= 0; a player
\* who survives them can still die of the environmental damage, and the decay
\* of status effects and cooldowns then runs as in any other turn.
C16_DeathTerminalPostTurnSkippedIfDead ==
    /\ [][is_alive(player)]_vars
    /\ [][~is_alive(player') => (DeathResolution(FALSE) \/ DeathResolution(TRUE))]_vars

\* A new player on the ember peak drinks the fire tonic and is struck down by
\* the goblin and the imp in the same turn: the tonic still has its 2 turns.
C16_Witness ==
    /\ ~is_alive(player)
    /\ call.op = "use" /\ call.id = "fire_tonic"
    /\ player.current_location = "ember_peak"
    /\ player.hp = -40
    /\ player.status_effects = ("fire_resistance" :> 2)

\* ---------------------------------------------------------------- mode transitions

\* C17: a mode transition triggered by a monster's XP award is honoured. When
\* the XP of a defeated monster takes a classless player to level 10, the turn
\* ends in class_choice mode, and no explore or combat command is accepted from
\* a player of level 10 or more without a class; when it completes any other
\* level, the turn ends in level_up mode; also when the defeated monster was
\* the last one at the location.
C17_XpModeTransitionHonoured ==
    /\ [][ player'.level > player.level =>
             game_mode' = IF player.class_id = None /\ player.level < 10 /\ player'.level >= 10
                          THEN "class_choice" ELSE "level_up"
         ]_vars
    /\ []((InLoop /\ game_mode \in {"explore", "combat"} /\ player.level >= 10)
              => player.class_id # None)

\* ---------------------------------------------------------------- live stats at the prompt

\* C18: stats are recalculated whenever base stats, class or skills change. At
\* every point where the game loop accepts a player command, max_hp,
\* attack_power and critical_chance are what a fresh recalculation gives from
\* the current base stats, class_id and unlocked_skills, also right after a
\* level-up whose upgrade prompt was skipped or cancelled.
C18_LiveStatsFreshAtPrompt ==
    (InLoop /\ game_mode \in {"explore", "combat"}) =>
        /\ player.max_hp = ExpectedStat(player, player.base_max_hp, "max_hp")
        /\ player.attack_power =
               ExpectedStat(player, player.base_attack_power, "attack_power")
        /\ player.critical_chance =
               ExpectedStat(player, player.base_critical_chance, "critical_chance")

\* ---------------------------------------------------------------- the monsters' turn

\* The step is a combat turn that consumed the player's turn and leaves a
\* monster at the location.
TurnLeavesMonsters ==
    /\ mode_at_prompt = "combat"
    /\ call'.op \in {"attack", "ability", "use"}
    /\ ~FailsValidation(call')
    /\ locations'[player.current_location].monsters # <<>>

\* Every monster left at the location has struck: the hp at the end of the
\* step is the hp the command and the XP award left (a level-up restores hp
\* to max_hp), minus the attack_power of each of them, minus the heat of the
\* volcano for a player who survived them without fire resistance.
MonstersStrike ==
    LET c == call'
        left == locations'[player.current_location].monsters
        item == all_items[c.id]
        hp_after_command ==
            IF c.op = "use" /\ item.item_type = "Potion"
            THEN Min(player.hp + item.heal_amount, player.max_hp)
            ELSE player.hp
        hp_before_blows ==
            IF player'.level > player.level THEN player.max_hp ELSE hp_after_command
        hp_after_blows == hp_before_blows - RetreatDamage(left, 2 ^ Len(left) - 1, 1)
        resistant ==
            \/ "fire_resistance" \in DOMAIN player.status_effects
            \/ c.op = "use" /\ item.item_type = "EffectPotion" /\ item.effect = "fire_resistance"
        heat ==
            IF /\ hp_after_blows > 0
               /\ all_locations[player.current_location].location_type = "Volcanic"
               /\ ~resistant
            THEN fire_damage ELSE 0
    IN  player'.hp = hp_after_blows - heat

\* C19: at the end of every combat turn that consumed the player's turn and
\* leaves at least one monster at the location, every surviving monster (one
\* spawned in this turn included) deals its attack_power to the player,
\* whether or not a defeat of the same turn triggered a level-up or a class
\* choice.
C19_SurvivingMonstersAttack ==
    [][TurnLeavesMonsters => MonstersStrike]_vars

\* ---------------------------------------------------------------- mode and location

\* The loop is about to read a command (explore or combat menu).
AcceptsCommand == InLoop /\ game_mode \in {"explore", "combat"}

\* C20: mode and location agree whenever a command is accepted: a command
\* handled in explore mode finds no monster at the player's location, one
\* handled in combat mode finds at least one and each of them has hp > 0; and
\* a step taken at the combat prompt sets the mode to explore exactly when it
\* removes the last monster of the location or is a retreat.
C20_ModeAndLocationAgree ==
    /\ [](AcceptsCommand =>
            LET monsters == locations[player.current_location].monsters
            IN  /\ mode_at_prompt = "explore" => monsters = <<>>
                /\ mode_at_prompt = "combat" =>
                      /\ monsters # <<>>
                      /\ \A k \in DOMAIN monsters : monsters[k].hp > 0)
    /\ [][ (AcceptsCommand /\ mode_at_prompt = "combat") =>
             (game_mode' = "explore" <=>
                 \/ locations'[player.current_location].monsters = <<>>
                 \/ call'.op = "retreat")
         ]_vars

\* Victory in the cellar: the blow that removes the bat, the last monster,
\* ends the combat.
C20_Witness ==
    /\ call = Call("attack", "bat", 0, FALSE)
    /\ player.current_location = "rat_cellar"
    /\ locations["rat_cellar"].monsters = <<>>
    /\ game_mode = "explore"
    /\ is_alive(player)

\* ---------------------------------------------------------------- where a retreat ends

\* C21: on retreat, a player who survives the free hits is moved to the
\* location previous_location named before the command, a player who does not
\* survive stays where they are; either way the mode right after the retreat
\* is explore, and the monsters left behind keep their hp and their location.
C21_RetreatLocation ==
    [][ (mode_at_prompt = "combat" /\ call'.op \in {"retreat", "rpg.retreat"}) =>
            LET monsters == locations[player.current_location].monsters
                survives == player.hp - RetreatDamage(monsters, call'.value, 1) > 0
            IN  /\ player'.current_location =
                      IF survives THEN player.previous_location ELSE player.current_location
                /\ game_mode' = "explore"
                /\ locations' = locations
      ]_vars

\* The knight who came up from the town flees the ember peak with 61 hp, is hit
\* by the goblin alone and is back in the town with 31 hp; goblin and imp are
\* as they were.
C21_Witness ==
    /\ call = Call("retreat", None, 1, FALSE)
    /\ player.hp = 31
    /\ player.current_location = "oakhaven"
    /\ game_mode = "explore"
    /\ locations["ember_peak"].monsters = NewLocations["ember_peak"].monsters

\* ---------------------------------------------------------------- the heat of the volcano

\* The step is a combat command that consumed the player's turn.
TurnConsumed ==
    /\ AcceptsCommand
    /\ mode_at_prompt = "combat"
    /\ call'.op \in {"attack", "ability", "use"}
    /\ ~FailsValidation(call')

\* The hp the command, the XP award and the monsters' attack leave in a
\* consumed turn (the monsters do not strike in a turn that ends in level_up
\* or class_choice mode).
HpAfterBlows ==
    LET c == call'
        left == locations'[player.current_location].monsters
        hp_after_command ==
            IF c.op = "use" /\ all_items[c.id].item_type = "Potion"
            THEN Min(player.hp + all_items[c.id].heal_amount, player.max_hp)
            ELSE player.hp
    IN  IF player'.level > player.level THEN player.max_hp
        ELSE hp_after_command - RetreatDamage(left, 2 ^ Len(left) - 1, 1)

\* The player is protected from the heat at the end of the step: by the armor,
\* by an active fire_resistance or by one drunk in this turn.
FireProtected ==
    \/ \E k \in DOMAIN player.inventory :
           all_items[player.inventory[k].id].name = "Fireproof Armor"
    \/ "fire_resistance" \in DOMAIN player.status_effects
    \/ /\ call'.op = "use"
       /\ all_items[call'.id].item_type = "EffectPotion"
       /\ all_items[call'.id].effect = "fire_resistance"

\* C22: environmental damage of exactly 3 hp is applied once at the end of a
\* combat turn if and only if the turn was consumed, the player is alive after
\* the monsters' attacks, the location is Volcanic, no inventory item is named
\* "Fireproof Armor" and fire_resistance is not an active status effect (one
\* granted by an EffectPotion in that same turn counts); a step at the combat
\* prompt that does not consume the turn, other than a retreat, leaves hp as
\* it is.
C22_EnvironmentalDamage ==
    [][ (AcceptsCommand /\ mode_at_prompt = "combat" /\ call'.op # "retreat") =>
            IF TurnConsumed
            THEN player'.hp = HpAfterBlows -
                    (IF /\ HpAfterBlows > 0
                        /\ all_locations[player.current_location].location_type = "Volcanic"
                        /\ ~FireProtected
                     THEN 3 ELSE 0)
            ELSE player'.hp = player.hp
      ]_vars

\* The knight on the ember peak drinks the fire tonic, takes the 60 hp of the
\* goblin's and the imp's blows and is not burnt.
C22_Witness ==
    /\ call.op = "use" /\ call.id = "fire_tonic"
    /\ player.current_location = "ember_peak"
    /\ player.hp = 35
    /\ player.status_effects = ("fire_resistance" :> 1)

\* ---------------------------------------------------------------- decay

\* The status effects and the cooldown of the k-th ability as the command of
\* the step leaves them, before any decay: an EffectPotion of the inventory
\* sets its effect (in explore mode too), a successful ability starts its
\* cooldown.
EffectsAfterCommand ==
    LET c == call'
    IN  IF /\ AcceptsCommand /\ c.op = "use"
           /\ \E k \in DOMAIN player.inventory : player.inventory[k].id = c.id
           /\ all_items[c.id].item_type = "EffectPotion"
        THEN (all_items[c.id].effect :> all_items[c.id].duration) @@ player.status_effects
        ELSE player.status_effects

CooldownAfterCommand(k) ==
    IF TurnConsumed /\ call'.op = "ability" /\ player.active_abilities[k].id = call'.id
    THEN player.active_abilities[k].max_cooldown
    ELSE player.active_abilities[k].cooldown

\* C23: status effects and cooldowns decay exactly once per consumed combat
\* turn in which the player is still alive after the monsters' attack, and at
\* no other time (not on rejected commands, not in explore mode, not in the
\* mode steps): every effect loses one turn and is removed exactly when it
\* reaches 0, every cooldown loses one turn but never goes below 0.
C23_DecayOncePerTurn ==
    [][ LET decays == TurnConsumed /\ HpAfterBlows > 0
            effects == EffectsAfterCommand
        IN  /\ DOMAIN player'.status_effects =
                  IF decays THEN {e \in DOMAIN effects : effects[e] - 1 > 0}
                  ELSE DOMAIN effects
            /\ \A e \in DOMAIN player'.status_effects :
                  player'.status_effects[e] = effects[e] - (IF decays THEN 1 ELSE 0)
            /\ \A k \in DOMAIN player.active_abilities :
                  /\ k \in DOMAIN player'.active_abilities
                  /\ player'.active_abilities[k].cooldown =
                        IF decays /\ CooldownAfterCommand(k) > 0
                        THEN CooldownAfterCommand(k) - 1
                        ELSE CooldownAfterCommand(k)
      ]_vars

\* The knight two turns after the fire tonic: the second turn's decay took the
\* fire_resistance away (it still kept the heat off in that turn).
C23_Witness ==
    /\ call.op = "attack"
    /\ player.class_id = "knight"
    /\ player.inventory = <<>>
    /\ player.status_effects = [e \in {} |-> 0]
    /\ player.hp = 5
    /\ player.level = 10

\* ---------------------------------------------------------------- cooldowns

\* C24: an ability can be used only while its cooldown is 0. An `ability`
\* command for an ability on cooldown damages no monster (no location
\* changes); a successful use sets the cooldown to max_cooldown before the
\* end-of-turn decay, so the turn ends with max_cooldown - 1, or max_cooldown
\* when the decay is skipped; and in every state 0 <= cooldown <= max_cooldown
\* holds for every ability.
C24_AbilityCooldown ==
    /\ [](\A k \in DOMAIN player.active_abilities :
             /\ 0 <= player.active_abilities[k].cooldown
             /\ player.active_abilities[k].cooldown <= player.active_abilities[k].max_cooldown)
    /\ [][ (AcceptsCommand /\ mode_at_prompt = "combat" /\ call'.op = "ability") =>
             \A k \in DOMAIN player.active_abilities :
                player.active_abilities[k].id = call'.id =>
                   IF player.active_abilities[k].cooldown > 0
                   THEN locations' = locations /\ player' = player
                   ELSE call'.value # 0 =>
                          player'.active_abilities[k].cooldown =
                             player.active_abilities[k].max_cooldown
                             - (IF HpAfterBlows > 0 THEN 1 ELSE 0)
         ]_vars

\* The mage of the cellar calls fireball again while it has 2 turns of
\* cooldown left: refused.
C24_Witness ==
    /\ call.op = "ability" /\ call.id = "fireball"
    /\ message = Msg("on_cooldown", "fireball", 2)
    /\ game_mode = "combat"
    /\ \E k \in DOMAIN player.active_abilities :
           player.active_abilities[k] = [id |-> "fireball", cooldown |-> 2, max_cooldown |-> 3]

\* ---------------------------------------------------------------- the player's damage

\* C25: player damage is deterministic: an attack on a present monster takes
\* exactly the player's current attack_power from that monster's hp and always
\* consumes the turn (the monsters left strike unless the turn ends in a
\* level-up); an ability used on a chosen monster takes exactly attack_power +
\* damage_bonus; a monster is removed only when that damage reaches its hp, no
\* other monster's hp changes, and critical_chance has no part in the damage.
C25_PlayerDamageDeterministic ==
    [][ (AcceptsCommand /\ mode_at_prompt = "combat" /\ call'.op \in {"attack", "ability"}
            /\ ~FailsValidation(call')) =>
            LET c == call'
                monsters == locations[player.current_location].monsters
                left == locations'[player.current_location].monsters
                damage == IF c.op = "attack" THEN player.attack_power
                          ELSE player.attack_power + skills[c.id].damage_bonus
                Struck(k) == IF c.op = "attack"
                             THEN /\ HasId(monsters[k], c.id, c.value)
                                  /\ \A i \in 1 .. k - 1 : ~HasId(monsters[i], c.id, c.value)
                             ELSE k = c.value
            IN  /\ \E k \in DOMAIN monsters : Struck(k)
                /\ \A k \in DOMAIN monsters :
                      IF Struck(k) /\ monsters[k].hp <= damage
                      THEN \A j \in DOMAIN left :
                              HasId(left[j], monsters[k].proto, monsters[k].n) =>
                                  left[j].hp = all_monsters[left[j].proto].hp
                      ELSE \E j \in DOMAIN left :
                              /\ HasId(left[j], monsters[k].proto, monsters[k].n)
                              /\ left[j].hp = monsters[k].hp - (IF Struck(k) THEN damage ELSE 0)
                /\ (left # <<>> /\ player'.level = player.level) =>
                      player'.hp <= player.hp - RetreatDamage(left, 2 ^ Len(left) - 1, 1)
      ]_vars

\* The player who took the critical-chance upgrade at level 2 has struck the
\* rat of 8 hp with an attack_power of 6: the rat is left with 2.
C25_Witness ==
    /\ call = Call("attack", "rat", 1, FALSE)
    /\ player.critical_chance > 0
    /\ player.attack_power = 6
    /\ \E k \in DOMAIN locations["rat_cellar"].monsters :
           locations["rat_cellar"].monsters[k].proto = "rat" /\ locations["rat_cellar"].monsters[k].hp = 2

\* ---------------------------------------------------------------- one level-up iteration

\* C26: each level-up iteration increases level by 1, subtracts the old
\* xp_to_next_level from xp, sets xp_to_next_level to floor(1.5 x the old
\* threshold), adds 5 to base_max_hp, 1 to base_attack_power and 1 to
\* skill_points, and changes no other field except hp (class_id,
\* unlocked_skills, base_critical_chance, the live max_hp, attack_power and
\* critical_chance, inventory and location are as before).
C26_LevelUpIteration ==
    [][ (call'.op = "level_up" /\ call'.id = None) =>
            player' = [player EXCEPT !.level = player.level + 1,
                                     !.xp = player.xp - player.xp_to_next_level,
                                     !.xp_to_next_level = (3 * player.xp_to_next_level) \div 2,
                                     !.base_max_hp = player.base_max_hp + 5,
                                     !.base_attack_power = player.base_attack_power + 1,
                                     !.skill_points = player.skill_points + 1,
                                     !.hp = player'.hp]
      ]_vars

\* The third iteration of a mage with a critical-chance upgrade: threshold
\* 225 becomes 337 (337.5 rounded down), the base stats are 35 and 8, three
\* skill points.
C26_Witness ==
    /\ call.op = "level_up"
    /\ player.level = 4
    /\ player.xp_to_next_level = 337
    /\ player.base_max_hp = 35 /\ player.base_attack_power = 8
    /\ player.skill_points = 3
    /\ player.base_critical_chance = 5
    /\ player.class_id = "mage"

\* ---------------------------------------------------------------- add_xp

\* xp_to_next_level at a level: 100 at level 1, floor(1.5 x) per level.
RECURSIVE ThresholdAt(_)
ThresholdAt(level) ==
    IF level <= 1 THEN 100 ELSE (3 * ThresholdAt(level - 1)) \div 2

\* C27: for every non-negative amount, add_xp returns, having performed one
\* level-up for each threshold crossed (several in one call for a large
\* amount, none when no threshold is reached, the XP gained in total being
\* conserved), and leaves 0 <= xp < xp_to_next_level; hence
\* 0 <= xp < xp_to_next_level whenever a command is accepted.
C27_AddXpLeavesXpBelowThreshold ==
    /\ [][ call'.op = "add_xp" =>
             /\ 0 <= player'.xp /\ player'.xp < player'.xp_to_next_level
             /\ player'.xp_to_next_level = ThresholdAt(player'.level)
             /\ XpAwarded(player') = XpAwarded(player) + call'.value
             /\ (message'.kind = "leveled_up" <=> player'.level > player.level)
         ]_vars
    /\ [](AcceptsCommand => (0 <= player.xp /\ player.xp < player.xp_to_next_level))

\* A call that crossed six thresholds at once and reached the last of them
\* exactly: 100 + 150 + 225 + 337 + 505 + 757 = 2074.
C27_Witness ==
    /\ call = Call("add_xp", None, 2074, FALSE)
    /\ player.level = 7 /\ player.xp = 0 /\ player.xp_to_next_level = 1135

\* ---------------------------------------------------------------- the hp after a level-up

\* C28: a level-up fully restores hp: when the level-up prompt (or the class
\* choice) that resolves a turn with a level-up hands over to the next
\* accepted command, and the player took no damage after the level-up (hp was
\* still the max_hp the level-up set it to when the prompt opened), hp equals
\* max_hp.
C28_LevelUpRestoresHp ==
    [][ (/\ game_mode \in {"level_up", "class_choice"}
         /\ player.hp = player.max_hp
         /\ game_mode' \in {"explore", "combat"}) =>
            player'.hp = player'.max_hp ]_vars

\* ---------------------------------------------------------------- offensive items outside combat

\* C29: an OffensiveItem is combat-only: a `use` command naming an
\* OffensiveItem of the inventory in explore mode is rejected and leaves the
\* player's hp and inventory unchanged.
C29_OffensiveItemCombatOnly ==
    [][ (/\ AcceptsCommand /\ mode_at_prompt = "explore"
         /\ call'.op = "use"
         /\ \E k \in DOMAIN player.inventory : player.inventory[k].id = call'.id
         /\ all_items[call'.id].item_type = "OffensiveItem") =>
            /\ player'.hp = player.hp
            /\ player'.inventory = player.inventory ]_vars

\* ---------------------------------------------------------------- items in combat

\* C30: item use in combat: a used OffensiveItem takes its damage_amount from
\* the chosen monster's hp and from no other, a used Potion or EffectPotion is
\* applied to the player only (the potion heals up to max_hp, the effect
\* starts with its duration, no monster changes), and in each of these cases
\* exactly that one item is removed from the inventory and the turn is
\* consumed (the monsters left strike, the effect has decayed once); an item
\* of any other type is rejected with the inventory unchanged and no turn
\* consumed.
C30_ItemUseInCombat ==
    [][ (/\ AcceptsCommand /\ mode_at_prompt = "combat" /\ call'.op = "use"
         /\ \E k \in DOMAIN player.inventory : player.inventory[k].id = call'.id) =>
            LET c == call'
                item == all_items[c.id]
                here == player.current_location
                monsters == locations[here].monsters
                left == locations'[here].monsters
                i == CHOOSE k \in DOMAIN player.inventory :
                        /\ player.inventory[k].id = c.id
                        /\ \A j \in 1 .. k - 1 : player.inventory[j].id # c.id
                one_removed == [k \in 1 .. Len(player.inventory) - 1 |->
                                   player.inventory[IF k < i THEN k ELSE k + 1]]
                strikes == RetreatDamage(left, 2 ^ Len(left) - 1, 1)
                heat == IF /\ HpAfterBlows > 0
                           /\ all_locations[here].location_type = "Volcanic"
                           /\ ~FireProtected
                        THEN fire_damage ELSE 0
            IN  CASE item.item_type = "OffensiveItem" /\ c.value # 0 ->
                        /\ player'.inventory = one_removed
                        /\ \A k \in DOMAIN monsters :
                              IF k = c.value /\ monsters[k].hp <= item.damage_amount
                              THEN \A j \in DOMAIN left :
                                      HasId(left[j], monsters[k].proto, monsters[k].n) =>
                                          left[j].hp = all_monsters[left[j].proto].hp
                              ELSE \E j \in DOMAIN left :
                                      /\ HasId(left[j], monsters[k].proto, monsters[k].n)
                                      /\ left[j].hp = monsters[k].hp -
                                            (IF k = c.value THEN item.damage_amount ELSE 0)
                        /\ (left # <<>> /\ player'.level = player.level) =>
                              player'.hp = player.hp - strikes - heat
                  [] item.item_type = "OffensiveItem" /\ c.value = 0 ->
                        player' = player /\ locations' = locations
                  [] item.item_type = "Potion" ->
                        /\ player'.inventory = one_removed
                        /\ locations' = locations
                        /\ player'.hp = Min(player.hp + item.heal_amount, player.max_hp)
                                           - strikes - heat
                  [] item.item_type = "EffectPotion" ->
                        /\ player'.inventory = one_removed
                        /\ locations' = locations
                        /\ player'.hp = player.hp - strikes - heat
                        /\ IF player.hp - strikes > 0
                           THEN player'.status_effects[item.effect] = item.duration - 1
                           ELSE player'.status_effects[item.effect] = item.duration
                  [] OTHER ->
                        /\ player' = player
                        /\ locations' = locations
                        /\ game_mode' = "combat"
                        /\ message'.kind = "cant_use_in_combat"
      ]_vars

\* The fire bomb thrown at the rat of 8 hp: the rat is left with 2, the bomb
\* is gone and the lantern is kept, and the rat has bitten.
C30_Witness ==
    /\ call.op = "use" /\ call.id = "fire_bomb" /\ call.value = 1
    /\ player.inventory = <<[id |-> "lantern_1", contained_items |-> <<>>]>>
    /\ player.current_location = "rat_cellar"
    /\ \E k \in DOMAIN locations["rat_cellar"].monsters :
           locations["rat_cellar"].monsters[k].proto = "rat" /\ locations["rat_cellar"].monsters[k].hp = 2
    /\ player.hp = 18

\* ---------------------------------------------------------------- quests

\* The step is a consumed combat command that brings a monster completing
\* quest_id to hp <= 0.
DefeatsMonsterOf(quest_id) ==
    /\ TurnConsumed
    /\ \E k \in DOMAIN locations[player.current_location].monsters :
          LET monster == locations[player.current_location].monsters[k]
          IN  /\ monster.hp <= DamageTo(call', k)
              /\ all_monsters[monster.proto].completes_quest_id = quest_id

\* C31: quest state only moves forward: a quest enters the player's quests
\* only as active, by a talk in explore mode, when it is not yet present;
\* a quest of the player's quests becomes completed exactly in a step that
\* defeats a monster with that completes_quest_id (a quest that is not in the
\* player's quests is not entered by a defeat); a quest never leaves the
\* quests, and once completed it stays completed, a later defeat of such a
\* monster changing nothing.
C31_QuestsMoveForward ==
    [][ \A q \in QuestIds :
          /\ q \in DOMAIN player.quests => q \in DOMAIN player'.quests
          /\ (q \notin DOMAIN player.quests /\ q \in DOMAIN player'.quests) =>
                /\ player'.quests[q] = "active"
                /\ mode_at_prompt = "explore" /\ call'.op = "talk"
          /\ (q \in DOMAIN player.quests /\ player.quests[q] = "completed") =>
                player'.quests = player.quests
          /\ (q \in DOMAIN player.quests /\ player.quests[q] = "active") =>
                (player'.quests[q] = "completed" <=> DefeatsMonsterOf(q))
          /\ DOMAIN player'.quests \subseteq QuestIds
      ]_vars

\* The goblin of the ember peak falls to a player who was given the quest by
\* the old man: the quest is completed.
C31_Witness ==
    /\ call.op = "attack" /\ call.id = "goblin"
    /\ player.current_location = "ember_peak"
    /\ "lantern_1" \in Range(item_ids_of(player.inventory))
    /\ player.quests = ("quest_cleared_swamp" :> "completed")
    /\ \A k \in DOMAIN locations["ember_peak"].monsters :
           locations["ember_peak"].monsters[k].proto # "goblin"

\* ---------------------------------------------------------------- monster instance ids

\* C32: monster instance ids are unique per location in every reachable
\* state: no two monsters of a location have the same id "{proto}:{n}", a
\* monster spawned through spawns_on_defeat included, so that an
\* `attack <id>` command identifies exactly one monster.
C32_MonsterIdsUnique ==
    \A l \in LocationIds :
        \A j, k \in DOMAIN locations[l].monsters :
            HasId(locations[l].monsters[j], locations[l].monsters[k].proto,
                  locations[l].monsters[k].n) => j = k

\* ---------------------------------------------------------------- Player.move

\* Players as a save leaves them at a location, with or without the lantern
\* and with the quest absent, active or completed.
MoveQuests ==
    {NewPlayer.quests, "quest_cleared_swamp" :> "active", "quest_cleared_swamp" :> "completed"}

MovePlayers ==
    {[NewPlayer EXCEPT !.current_location = l, !.previous_location = l,
                       !.discovered_locations = {start_location_id, l},
                       !.inventory = ItemObjects(item_ids), !.quests = qs] :
        l \in LocationIds, item_ids \in {<<>>, <<"lantern_1">>}, qs \in MoveQuests}

InitMove ==
    /\ player \in MovePlayers
    /\ InitLoop
    /\ message = Msg("", None, 0)
    /\ call = NoCall

\* player.move(direction); message.kind tells the value returned.
Move(direction) ==
    LET r == move(player, direction)
    IN  /\ player' = r.player
        /\ message' = Msg(IF r.moved THEN "moved" ELSE "not_moved", direction, 0)
        /\ call' = Call("move", direction, 0, FALSE)
        /\ UNCHANGED loop_vars

NextMove == \E direction \in Directions : Move(direction)

SpecMove == InitMove /\ [][NextMove]_vars

\* The conditions of a conditional exit all hold for the player.
ExitOpen(c_exit) ==
    \A k \in DOMAIN c_exit.conditions :
        LET condition == c_exit.conditions[k]
        IN  /\ condition.type = "has_item" =>
                  condition.item_id \in Range(item_ids_of(player.inventory))
            /\ condition.type = "quest_completed" =>
                  /\ condition.quest_id \in DOMAIN player.quests
                  /\ player.quests[condition.quest_id] = "completed"
            /\ condition.type = "quest_active" =>
                  /\ condition.quest_id \in DOMAIN player.quests
                  /\ player.quests[condition.quest_id] = "active"

\* C33: Player.move succeeds only through an unconditional exit in that
\* direction or a conditional exit in that direction whose conditions
\* (has_item, quest_completed, quest_active) all hold, and leads to the
\* destination of such an exit; on success previous_location becomes the old
\* location and the new location's id is added to discovered_locations; on
\* failure current_location, previous_location and discovered_locations are
\* unchanged; nothing else of the player changes either way.
C33_MoveThroughOpenExits ==
    [][ (\/ call'.op = "move"
         \/ AcceptsCommand /\ mode_at_prompt = "explore" /\ call'.op = "go") =>
            LET loc == all_locations[player.current_location]
                direction == call'.id
                ways == {loc.exits[d] : d \in DOMAIN loc.exits \cap {direction}}
                        \cup {loc.conditional_exits[k].destination :
                                k \in {j \in DOMAIN loc.conditional_exits :
                                         /\ loc.conditional_exits[j].direction = direction
                                         /\ ExitOpen(loc.conditional_exits[j])}}
                moved == message'.kind \in {"moved", "go"}
            IN  /\ moved <=> ways # {}
                /\ IF moved
                   THEN /\ player'.current_location \in ways
                        /\ player'.previous_location = player.current_location
                        /\ player'.discovered_locations =
                              player.discovered_locations \cup {player'.current_location}
                   ELSE /\ player'.current_location = player.current_location
                        /\ player'.previous_location = player.previous_location
                        /\ player'.discovered_locations = player.discovered_locations
                /\ player' = [player EXCEPT
                                !.current_location = player'.current_location,
                                !.previous_location = player'.previous_location,
                                !.discovered_locations = player'.discovered_locations]
      ]_vars

\* From the loft the first exit east is closed (the quest is not completed)
\* and the second is open for the lantern bearer with the active quest: the
\* move leads to the cellar.
C33_Witness ==
    /\ call = Call("move", "east", 0, FALSE)
    /\ message.kind = "moved"
    /\ player.current_location = "rat_cellar"
    /\ player.previous_location = "bat_loft"
    /\ player.discovered_locations = {"oakhaven", "bat_loft", "rat_cellar"}
    /\ player.quests = ("quest_cleared_swamp" :> "active")

\* ---------------------------------------------------------------- skills and their trackers

\* unlocked_skills has no duplicate, and active_abilities holds, in the order
\* of the unlocks, one tracker for each unlocked skill of type active and
\* nothing else.
TrackersMatch(p) ==
    /\ \A j, k \in DOMAIN p.unlocked_skills :
           p.unlocked_skills[j] = p.unlocked_skills[k] => j = k
    /\ \A k \in DOMAIN p.active_abilities :
           /\ p.active_abilities[k].id \in Range(p.unlocked_skills)
           /\ skills[p.active_abilities[k].id].skill_type = "active"
           /\ \A j \in DOMAIN p.active_abilities :
                  p.active_abilities[j].id = p.active_abilities[k].id => j = k
    /\ \A sid \in Range(p.unlocked_skills) :
           skills[sid].skill_type = "active" =>
               \E k \in DOMAIN p.active_abilities : p.active_abilities[k].id = sid

\* C34: in every state reached through unlock_skill, class selection and
\* save/load, unlocked_skills contains no duplicate and active_abilities
\* contains exactly one tracker for each unlocked skill of type active and
\* none for any other skill, also for the player that load_player_from_save
\* builds from a save of the state, who has the same unlocked_skills; in every
\* step unlocked_skills only grows (the old list is a prefix of the new one)
\* and no tracker is removed.
C34_UnlockedSkillsAndTrackers ==
    /\ [](/\ TrackersMatch(player)
          /\ TrackersMatch(load_player_from_save(save_game(player)))
          /\ load_player_from_save(save_game(player)).unlocked_skills = player.unlocked_skills)
    /\ [][ /\ Len(player'.unlocked_skills) >= Len(player.unlocked_skills)
           /\ SubSeq(player'.unlocked_skills, 1, Len(player.unlocked_skills))
                 = player.unlocked_skills
           /\ \A k \in DOMAIN player.active_abilities :
                  \E j \in DOMAIN player'.active_abilities :
                      player'.active_abilities[j].id = player.active_abilities[k].id
       ]_vars

\* The mage of level 12 after the class choice and a paid unlock: two
\* passive skills and one active one, one tracker.
C34_Witness ==
    /\ call.op = "unlock_skill"
    /\ message.kind = "unlocked"
    /\ player.class_id = "mage"
    /\ Len(player.unlocked_skills) = 3
    /\ Len(player.active_abilities) = 1
    /\ player.active_abilities[1].id = "fireball"

\* ---------------------------------------------------------------- the healer

\* C35: talking to an NPC of the location that has healing dialogue sets the
\* player's hp to max_hp when hp < max_hp and leaves hp unchanged otherwise;
\* max_hp and everything else of the player and of the world are as before.
C35_HealerRestoresHp ==
    [][ (/\ AcceptsCommand /\ mode_at_prompt = "explore" /\ call'.op = "talk"
         /\ call'.id \in Range(all_locations[player.current_location].npc_ids)
         /\ all_npcs[call'.id].healing_dialogue) =>
            /\ player' = [player EXCEPT
                            !.hp = IF player.hp < player.max_hp THEN player.max_hp ELSE player.hp]
            /\ message'.kind = (IF player.hp < player.max_hp THEN "healed" ELSE "healer_default")
            /\ locations' = locations
            /\ game_mode' = "explore"
      ]_vars

\* The knight who continued the saved adventure with 60 hp has been healed
\* by the sister to the max_hp of 95, which is not the base_max_hp.
C35_Witness ==
    /\ call = Call("talk", "sister_elira", 0, FALSE)
    /\ message.kind = "healed"
    /\ player.class_id = "knight"
    /\ player.hp = player.max_hp
    /\ player.max_hp > player.base_max_hp

\* ---------------------------------------------------------------- base stats

BaseStats(p) ==
    [base_max_hp |-> p.base_max_hp, base_attack_power |-> p.base_attack_power,
     base_critical_chance |-> p.base_critical_chance]

\* C36: base stats change only through level-ups and level-up choices. In
\* level_up mode with skill_points > 0 a chosen upgrade raises exactly one
\* base stat by its amount (base_max_hp by 10, base_attack_power by 2,
\* base_critical_chance by 5 points), takes exactly 1 from skill_points and
\* leaves the live stats recalculated (hp is capped, never raised); a
\* cancelled prompt, and a level_up step with skill_points = 0, change
\* nothing of the player; a step that is neither a chosen upgrade nor a
\* combat turn that raises the level leaves the three base stats as they are.
C36_BaseStatsChange ==
    [][ /\ (game_mode = "level_up" /\ call'.op = "level_up") =>
              IF player.skill_points > 0 /\ call'.id # None
              THEN LET raised ==
                          [BaseStats(player) EXCEPT
                              !.base_max_hp = @ + (IF call'.id = "hp" THEN 10 ELSE 0),
                              !.base_attack_power = @ + (IF call'.id = "attack" THEN 2 ELSE 0),
                              !.base_critical_chance = @ + (IF call'.id = "crit" THEN 5 ELSE 0)]
                   IN  /\ BaseStats(player') = raised
                       /\ player'.skill_points = player.skill_points - 1
                       /\ player'.max_hp = ExpectedStat(player', player'.base_max_hp, "max_hp")
                       /\ player'.attack_power =
                             ExpectedStat(player', player'.base_attack_power, "attack_power")
                       /\ player'.critical_chance =
                             ExpectedStat(player', player'.base_critical_chance, "critical_chance")
                       /\ player'.hp = Min(player.hp, player'.max_hp)
                       /\ player' = [player EXCEPT
                                       !.base_max_hp = raised.base_max_hp,
                                       !.base_attack_power = raised.base_attack_power,
                                       !.base_critical_chance = raised.base_critical_chance,
                                       !.skill_points = player'.skill_points,
                                       !.max_hp = player'.max_hp,
                                       !.attack_power = player'.attack_power,
                                       !.critical_chance = player'.critical_chance,
                                       !.hp = player'.hp]
              ELSE player' = player
        /\ ~(game_mode = "level_up" /\ call'.op = "level_up") =>
              IF player'.level > player.level
              THEN /\ TurnConsumed
                   /\ BaseStats(player') =
                         [BaseStats(player) EXCEPT
                             !.base_max_hp = @ + 5 * (player'.level - player.level),
                             !.base_attack_power = @ + (player'.level - player.level)]
              ELSE BaseStats(player') = BaseStats(player)
      ]_vars

\* The new player who reached level 2 in the cellar chose the hp upgrade:
\* base_max_hp 35, the skill point spent, max_hp 35 and hp still 20.
C36_Witness ==
    /\ call = Call("level_up", "hp", 0, FALSE)
    /\ player.level = 2
    /\ player.base_max_hp = 35 /\ player.base_attack_power = 6
    /\ player.skill_points = 0
    /\ player.max_hp = 35 /\ player.hp = 20

\* ---------------------------------------------------------------- unique drops

\* How many items of a list have the id.
CountOf(item_id, items) == Cardinality({k \in DOMAIN items : items[k].id = item_id})

\* How often the id is in a list of ids.
TimesIn(item_id, ids) == Cardinality({k \in DOMAIN ids : ids[k] = item_id})

\* C37: in rpg.py, which applies the uniqueness rule, the defeat of a monster
\* adds a dropped item with a designated unique id to the ground of the
\* location only if no item with that id is in the player's inventory or on
\* the ground there already (also when the monster drops it twice), so the
\* defeat never raises the count of that id in inventory + ground above 1;
\* every non-unique drop is added; a turn without a defeat leaves the ground
\* as it is.
C37_UniqueDrops ==
    [][ call'.op = "rpg.attack" =>
            LET here == player.current_location
                monsters == locations[here].monsters
                ground == locations[here].items
                ground_after == locations'[here].items
                struck == {k \in DOMAIN monsters :
                             /\ HasId(monsters[k], call'.id, call'.value)
                             /\ \A j \in 1 .. k - 1 : ~HasId(monsters[j], call'.id, call'.value)}
                defeated == {k \in struck : monsters[k].hp <= player.attack_power}
                Drops(item_id) == IF defeated = {} THEN 0
                                  ELSE TimesIn(item_id, all_monsters[call'.id].drop_ids)
            IN  /\ player'.inventory = player.inventory
                /\ SubSeq(ground_after, 1, Len(ground)) = ground
                /\ \A item_id \in ItemIds :
                      IF item_id \in unique_item_ids
                      THEN /\ CountOf(item_id, ground_after) =
                                 IF /\ Drops(item_id) > 0
                                    /\ CountOf(item_id, player.inventory) = 0
                                    /\ CountOf(item_id, ground) = 0
                                 THEN 1 ELSE CountOf(item_id, ground)
                           /\ \/ CountOf(item_id, player'.inventory)
                                    + CountOf(item_id, ground_after) <= 1
                              \/ ground_after = ground
                      ELSE CountOf(item_id, ground_after) =
                              CountOf(item_id, ground) + Drops(item_id)
      ]_vars

\* The goblin, which drops a fire bomb and two lanterns, falls to a knight
\* who carries the lantern: only the bomb lies on the ground.
C37_Witness ==
    /\ call = Call("rpg.attack", "goblin", 0, FALSE)
    /\ player.inventory = <<ItemObject("lantern_1")>>
    /\ locations["ember_peak"].items = <<ItemObject("fire_bomb")>>
    /\ \A k \in DOMAIN locations["ember_peak"].monsters :
           locations["ember_peak"].monsters[k].proto # "goblin"

\* ---------------------------------------------------------------- hp and max_hp

\* C38: hp <= max_hp whenever a command is accepted, after any sequence of
\* commands, level-ups, level-up choices, skill unlocks, class selection,
\* potion uses, healer talks and the loading of a save.
C38_HpAtMostMaxHp ==
    AcceptsCommand => player.hp <= player.max_hp

\* A player with a class levels up in a fight, takes the hp upgrade and is
\* asked for the next command with hp below the raised max_hp.
C38_Witness ==
    /\ AcceptsCommand
    /\ call = Call("level_up", "hp", 0, FALSE)
    /\ player.class_id \in ClassIds
    /\ player.max_hp = ExpectedStat(player, player.base_max_hp, "max_hp")
    /\ player.hp < player.max_hp

\* ---------------------------------------------------------------- skill points

\* The cost paid by the step that made call c: the cost of the skill a
\* non-free unlock_skill or the skills menu unlocked, else 0.
CostPaid(c, msg) ==
    IF /\ msg.kind = "unlocked"
       /\ \/ c.op = "unlock_skill" /\ ~c.free
          \/ c.op = "skills_menu"
    THEN skills[c.id].cost ELSE 0

\* 1 when the step applied a level-up upgrade, else 0.
UpgradeChosen(c, p) ==
    IF c.op = "level_up" /\ c.id \in LevelUpChoices /\ p.skill_points > 0 THEN 1 ELSE 0

\* C39: skill points are conserved and never negative: every step changes
\* skill_points by the number of level-ups it made, less one for a level-up
\* upgrade chosen, less the cost of a skill unlocked non-free; class-granted
\* skills are free and no other operation changes skill_points.
C39_SkillPointsConserved ==
    /\ [](player.skill_points >= 0)
    /\ [][ player'.skill_points = player.skill_points + (player'.level - player.level)
                                  - UpgradeChosen(call', player) - CostPaid(call', message') ]_vars

\* ---------------------------------------------------------------- leaving a fight

\* C40: while the game is in combat mode current_location changes only through
\* a retreat: `go <direction>`, which the action list still offers for an open
\* conditional exit, and every other command that is not a retreat leave
\* current_location and previous_location as they were.
C40_OnlyRetreatLeavesCombat ==
    [][ (AcceptsCommand /\ mode_at_prompt = "combat" /\ call'.op # "retreat")
            => /\ player'.current_location = player.current_location
               /\ player'.previous_location = player.previous_location ]_vars

\* `go` was entered in a fight at a place with an exit in that direction that
\* Player.move would have taken; the player is still there, the monsters too.
C40_Witness ==
    /\ call.op = "go"
    /\ game_mode = "combat"
    /\ message = Msg("", None, 0)
    /\ locations[player.current_location].monsters # <<>>
    /\ move(player, call.id).moved
    /\ open_conditional_exit(player, call.id) # 0

====
